---- MODULE Spec2Model ----
(***************************************************************************)
(* A model of the world/entity state, the player state and the combat      *)
(* engine of the HFSE text adventure (src/src/game_world.py,               *)
(* src/src/player.py, src/src/combat.py, src/src/command_handler.py).      *)
(*                                                                         *)
(* Python dicts are functions whose DOMAIN is the set of keys present, so  *)
(* that "key absent" and "key mapped to 0 / False" stay different states.  *)
(* Python None is the string None.                                         *)
(***************************************************************************)
EXTENDS Integers, Sequences, FiniteSets, TLC

None == "None"

(***************************************************************************)
(* Bounds of the model.                                                    *)
(***************************************************************************)
\* total_damage can grow without limit (upgrades, re-equipping); the
\* commands that raise it are explored only while it stays below this cap.
MaxTotalDamage == 16
\* Largest amount handed to heal / take_damage / increase_max_health.
MaxAmount == 4
\* max_health of the players the heal / damage calls are applied to.
MaxMaxHealth == 5

(***************************************************************************)
(* Dict helpers.                                                           *)
(***************************************************************************)
EmptyDict == [k \in {} |-> None]
DictSet(d, k, v) == [x \in (DOMAIN d) \cup {k} |-> IF x = k THEN v ELSE d[x]]
DictDel(d, k) == [x \in (DOMAIN d) \ {k} |-> d[x]]
\* d.get(k, default)
Get(d, k, default) == IF k \in DOMAIN d THEN d[k] ELSE default
Min(a, b) == IF a < b THEN a ELSE b
Max(a, b) == IF a > b THEN a ELSE b

(***************************************************************************)
(* The entity catalog (data/*.yaml, loaded once per session).  The data    *)
(* files are not part of the sources; the entries below are one catalog    *)
(* with the fields the code reads.  An entry lists only the keys its YAML  *)
(* entry would give, the code's .get defaults supply the rest.             *)
(***************************************************************************)
ClassIds == {"fighter", "mage", "celtic", "guardian"}

\* data/classes.yaml as read by Player.load_class_attributes
ClassData ==
    [c \in ClassIds |->
        CASE c = "fighter" -> [base_health |-> 120, base_damage |-> 6, starter_weapon |-> "sword"]
          [] c = "mage"    -> [base_health |-> 80, base_damage |-> 4]
          [] c = "celtic"  -> [base_health |-> 100, base_damage |-> 5]
          [] OTHER         -> [base_health |-> 100]]

\* data/items/*.yaml merged by GameEngine.load_items
ItemData ==
    [ sword     |-> [type |-> "weapon", damage |-> 3, max_spawn |-> 0],
      axe       |-> [type |-> "weapon", damage |-> 5, class_restriction |-> {"fighter"}],
      chip      |-> [type |-> "upgrade", usable |-> TRUE, consumed_on_use |-> TRUE,
                     effects |-> [permanent_damage |-> 2, permanent_health |-> 10]],
      potion    |-> [type |-> "consumable", usable |-> TRUE, consumed_on_use |-> TRUE,
                     on_use |-> [heal |-> 20]],
      tonic     |-> [type |-> "consumable", usable |-> TRUE, consumed_on_use |-> TRUE,
                     on_use |-> [heal |-> 5,
                                 status_effect |-> [id |-> "rage", name |-> "Rage",
                                                    damage_bonus |-> 2, duration |-> 3]]],
      thorn     |-> [type |-> "other", usable |-> TRUE,
                     on_use |-> [damage |-> 50, unlock_room |-> "cellar"]],
      brass_key |-> [type |-> "key", usable |-> TRUE, unlocks |-> {"vault"}],
      iron_key  |-> [type |-> "key"],
      note      |-> [type |-> "lore", usable |-> TRUE],
      statue    |-> [type |-> "other", takeable |-> FALSE],
      badge     |-> [type |-> "other", droppable |-> FALSE],
      gem       |-> [type |-> "other", rarity |-> "rare", allowed_rooms |-> {"lab", "vault"}],
      coin      |-> [type |-> "other", max_spawn |-> 2, rarity_number |-> 25,
                     allowed_rooms |-> {"root", "vault"}],
      wand      |-> [type |-> "weapon", damage |-> 1, rarity_number |-> 3,
                     allowed_classes |-> {"mage"}, allowed_rooms |-> {"hall"}],
      relic     |-> [type |-> "other", rarity |-> "mythic", allowed_rooms |-> {"cellar"}] ]

ItemIds == DOMAIN ItemData

\* data/rooms: exits, initial item lists and the initial flags
RoomData ==
    [ root  |-> [exits |-> {"hall", "attic", "lab"},
                 items |-> {"axe", "note", "statue", "thorn"}],
      hall  |-> [exits |-> {"root", "vault", "cellar"},
                 items |-> {"chip", "brass_key", "iron_key", "badge", "tonic"},
                 npcs |-> {"oracle", "ghost"}],
      cellar |-> [exits |-> {"hall"}, locked |-> TRUE, key_required |-> "iron_key"],
      vault |-> [exits |-> {"hall"}, items |-> {"potion"}, enemies |-> {"sentry"},
                 locked |-> TRUE, key_required |-> "brass_key"],
      attic |-> [exits |-> {"root"}, hidden |-> TRUE, enemies |-> {"rat", "rat_king"}],
      lab   |-> [exits |-> {"root", "core"}, enemies |-> {"drone"}],
      core  |-> [exits |-> {"lab"}, enemies |-> {"warden.yml"}] ]

RoomIds == DOMAIN RoomData

\* data/enemies as loaded into GameWorld.enemies.  The room data of core
\* names the warden with the file extension; sentry does not attack on
\* sight; the room data of attic lists a rat_king, which has no entry.
EnemyData ==
    [ drone  |-> [name |-> "Drone", health |-> 12, damage |-> 10],
      warden |-> [name |-> "Warden", health |-> 60, damage |-> 15, is_boss |-> TRUE],
      sentry |-> [name |-> "Sentry", health |-> 9, damage |-> 5, auto_attack |-> FALSE],
      rat    |-> [name |-> "Rat", health |-> 4, damage |-> 1] ]

\* data/npcs as loaded into GameWorld.npcs; the hall also names a ghost
\* the catalog has no entry for
NpcData == [ oracle |-> [name |-> "Oracle"] ]

\* enemy_id.split('.')[0] for the ids of the catalog
BaseId(enemy_id) == IF enemy_id = "warden.yml" THEN "warden" ELSE enemy_id

\* e_id.startswith(prefix) for the ids of the catalog
StartsWith(e_id, prefix) ==
    \/ e_id = prefix
    \/ BaseId(e_id) = prefix
    \/ (e_id = "rat_king" /\ prefix = "rat")

\* an enemy id with the extension appended: enemy_id + ".yml"
WithYml(enemy_id) == IF enemy_id = "warden" THEN "warden.yml" ELSE None

\* the enemy ids the rooms of the catalog list
ListedEnemies == UNION {Get(RoomData[r], "enemies", {}) : r \in RoomIds}

\* GameWorld.enemies after _initialize_world_state: the loaded catalog and
\* an alias for every listed id that matched with or without the extension
WorldEnemies ==
    [e \in DOMAIN EnemyData \cup
            {x \in ListedEnemies : WithYml(x) \in DOMAIN EnemyData
                                    \/ BaseId(x) \in DOMAIN EnemyData} |->
        IF e \in DOMAIN EnemyData THEN EnemyData[e]
        ELSE IF WithYml(e) \in DOMAIN EnemyData THEN EnemyData[WithYml(e)]
        ELSE EnemyData[BaseId(e)]]

\* data/attacks.yml as loaded by CombatSystem.load_attacks.  shield_bash
\* uses the legacy damage field and gives no accuracy; strike gives no
\* cooldown; ancient_fury and frost_nova have no definition.  An
\* enemy_damage_reduction is a fraction in the data and is kept in percent.
AttackData ==
    [ strike         |-> [name |-> "Strike", bonus_damage |-> 0, accuracy |-> 95],
      power_strike   |-> [name |-> "Power Strike", bonus_damage |-> 5, accuracy |-> 100,
                          cooldown |-> 2],
      shield_bash    |-> [name |-> "Shield Bash", damage |-> 3, cooldown |-> 1,
                          enemy_damage_reduction |-> 50],
      arcane_bolt    |-> [name |-> "Arcane Bolt", bonus_damage |-> 1, accuracy |-> 100],
      fireball       |-> [name |-> "Fireball", bonus_damage |-> 8, accuracy |-> 70,
                          cooldown |-> 3],
      nature_strike  |-> [name |-> "Nature Strike", accuracy |-> 85],
      healing_strike |-> [name |-> "Healing Strike", bonus_damage |-> 5, healing |-> 10,
                          accuracy |-> 80, cooldown |-> 3],
      chain_lightning |-> [name |-> "Chain Lightning", bonus_damage |-> 4, accuracy |-> 60,
                          cooldown |-> 1] ]

\* an attack id data/attacks.yml does not define and no class lists
UnknownAttack == "flail"

\* spell_name.lower().replace(' ', '_') on the spell names of the catalog
SpellAttackId ==
    [ n \in {"Chain Lightning", "Fireball", "Mind Blast"} |->
        CASE n = "Chain Lightning" -> "chain_lightning"
          [] n = "Fireball" -> "fireball"
          [] n = "Mind Blast" -> "mind_blast" ]

\* status effects an item or effect of the catalog can add
EffectData ==
    [ rage |-> [name |-> "Rage", damage_bonus |-> 2, duration |-> 3],
      ward |-> [name |-> "Ward", duration |-> 2],
      spark |-> [name |-> "Spark", damage_bonus |-> 1, duration |-> 1] ]
\* a room id no catalog entry exists for
UnknownRoom == "nowhere"
StartRoom == "root"

(***************************************************************************)
(* Player State (src/src/player.py).  A player is a record of the Player   *)
(* object's attributes; every method is an operator from the player before *)
(* the call to the player after it, its return value a second operator.    *)
(* The inventory maps an item id to the catalog entry it was taken with    *)
(* (command_handler.py:356,369), so it is kept as the set of its keys and  *)
(* the item data is read from ItemData.                                    *)
(***************************************************************************)
InvItem(p, item_id) == ItemData[item_id]

add_to_inventory(p, item_id) ==
    [p EXCEPT !.inventory = @ \cup {item_id}]

\* remove_from_inventory leaving the weapon slot alone
remove_from_inventory_KeepEquipped(p, item_id) ==
    IF item_id \in p.inventory
    THEN [p EXCEPT !.inventory = @ \ {item_id}]
    ELSE p

remove_from_inventory(p, item_id) ==
    IF item_id \in p.inventory
    THEN [p EXCEPT !.equipped_weapon = IF @ = item_id THEN None ELSE @,
                   !.inventory = @ \ {item_id}]
    ELSE p

equip_weapon(p, item_id) ==
    IF item_id \in p.inventory
    THEN LET old_bonus == IF p.equipped_weapon # None /\ p.equipped_weapon \in p.inventory
                          THEN Get(InvItem(p, p.equipped_weapon), "damage", 0)
                          ELSE 0
             weapon_bonus == Get(InvItem(p, item_id), "damage", 0)
         IN [p EXCEPT !.equipped_weapon = item_id,
                      !.total_damage = @ - old_bonus + weapon_bonus]
    ELSE p

has_item(p, item_id) == item_id \in p.inventory

can_use_item(p, item) ==
    IF "class_restriction" \in DOMAIN item
    THEN p.player_class \in item.class_restriction
    ELSE IF "allowed_classes" \in DOMAIN item
         THEN p.player_class \in item.allowed_classes
         ELSE TRUE

add_status_effect(p, effect_id, effect_data, duration) ==
    [p EXCEPT !.status_effects =
        DictSet(@, effect_id,
                [duration |-> duration,
                 effect |-> effect_data,
                 name |-> Get(effect_data, "name", "Unknown Effect"),
                 description |-> Get(effect_data, "description", "")])]

\* update_status_effects removing only the effects that were already at 0
update_status_effects_KeepAtZero(p) ==
    [p EXCEPT !.status_effects =
        [e \in {x \in DOMAIN p.status_effects : p.status_effects[x].duration - 1 >= 0} |->
            [p.status_effects[e] EXCEPT !.duration = @ - 1]]]

\* update_status_effects: every duration one lower, the effects that reach
\* 0 removed
update_status_effects(p) ==
    [p EXCEPT !.status_effects =
        [e \in {x \in DOMAIN p.status_effects : ~(p.status_effects[x].duration - 1 <= 0)} |->
            [p.status_effects[e] EXCEPT !.duration = @ - 1]]]

\* the messages update_status_effects returns, by the effect they are
\* about: "The <name> effect has worn off."
update_status_effects_messages(p) ==
    [e \in {x \in DOMAIN p.status_effects : p.status_effects[x].duration - 1 <= 0} |->
        Get(p.status_effects[e], "name", e)]

\* take_damage without the floor at 0
take_damage_NoFloor(p, amount) ==
    [p EXCEPT !.health = @ - amount]

\* heal without the cap at max_health
heal_NoCap(p, amount) ==
    [p EXCEPT !.health = @ + amount]

take_damage(p, amount) ==
    [p EXCEPT !.health = IF @ - amount < 0 THEN 0 ELSE @ - amount]

heal(p, amount) ==
    [p EXCEPT !.health = IF @ + amount > p.max_health THEN p.max_health ELSE @ + amount]

\* the value heal returns: `return self.health`
heal_return(p, amount) == heal(p, amount).health

is_alive(p) == p.health > 0

\* increase_max_health raising health and leaving max_health as it was
increase_max_health_KeepMax(p, amount) ==
    [p EXCEPT !.permanent_health_boost = @ + amount,
              !.health = @ + amount]

increase_max_health(p, amount) ==
    [p EXCEPT !.permanent_health_boost = @ + amount,
              !.max_health = @ + amount,
              !.health = @ + amount]

increase_damage(p, amount) ==
    [p EXCEPT !.permanent_damage_boost = @ + amount,
              !.total_damage = @ + amount]

move_to(p, room_id) == [p EXCEPT !.current_room = room_id]

RECURSIVE SumDamageBonus(_, _)
SumDamageBonus(effects, ids) ==
    IF ids = {} THEN 0
    ELSE LET e == CHOOSE x \in ids : TRUE
         IN Get(Get(effects[e], "effect", EmptyDict), "damage_bonus", 0)
            + SumDamageBonus(effects, ids \ {e})

\* calculate_damage leaving the status effects out
calculate_damage_NoEffects(p) == p.total_damage

calculate_damage(p) ==
    p.total_damage + SumDamageBonus(p.status_effects, DOMAIN p.status_effects)

\* Player.__init__ followed by load_class_attributes
NewPlayer(class, room, pid) ==
    LET known == IF class \in ClassIds THEN class ELSE "guardian"
        info == ClassData[known]
        p0 == [name |-> "",
               player_class |-> class,
               current_room |-> room,
               max_health |-> Get(info, "base_health", 100),
               health |-> Get(info, "base_health", 100),
               total_damage |-> Get(info, "base_damage", 5),
               inventory |-> {},
               equipped_weapon |-> None,
               status_effects |-> EmptyDict,
               spells |-> <<>>,
               permanent_health_boost |-> 0,
               permanent_damage_boost |-> 0,
               player_id |-> pid]
        starter == Get(info, "starter_weapon", None)
    IN IF starter # None /\ starter \in ItemIds
       THEN equip_weapon(add_to_inventory(p0, starter), starter)
       ELSE p0

\* base_damage of the player's class, the value load_class_attributes stored
BaseDamageForClass(class) ==
    Get(ClassData[IF class \in ClassIds THEN class ELSE "guardian"], "base_damage", 5)

(***************************************************************************)
(* World State (src/src/game_world.py).                                    *)
(***************************************************************************)
\* GameWorld.__init__ and _initialize_world_state.  Every room of the
\* catalog lists items at most once, so the spawn count of a listed item
\* is 1.
InitWorld ==
    [ item_locations |->
        [i \in {x \in ItemIds : \E r \in RoomIds : x \in Get(RoomData[r], "items", {})} |->
            CHOOSE r \in RoomIds : i \in Get(RoomData[r], "items", {})],
      enemy_locations |->
        [e \in {x \in ListedEnemies : x \in DOMAIN WorldEnemies} |->
            CHOOSE r \in RoomIds : e \in Get(RoomData[r], "enemies", {})],
      room_enemies |->
        [r \in {x \in RoomIds : "enemies" \in DOMAIN RoomData[x]} |-> RoomData[r].enemies],
      npc_locations |->
        [n \in {x \in DOMAIN NpcData : \E r \in RoomIds : x \in Get(RoomData[r], "npcs", {})} |->
            CHOOSE r \in RoomIds : n \in Get(RoomData[r], "npcs", {})],
      room_states |->
        [r \in RoomIds |->
            [visited |-> FALSE,
             locked |-> Get(RoomData[r], "locked", FALSE),
             hidden |-> Get(RoomData[r], "hidden", FALSE),
             key_required |-> Get(RoomData[r], "key_required", None)]],
      item_spawn_counts |->
        [i \in {x \in ItemIds : \E r \in RoomIds : x \in Get(RoomData[r], "items", {})} |-> 1] ]

get_room_state(w, room_id) ==
    Get(w.room_states, room_id, [visited |-> FALSE, locked |-> FALSE])

\* set_room_visited writing the opposite of the flag it finds
set_room_visited_Flip(w, room_id) ==
    IF room_id \in DOMAIN w.room_states
    THEN [w EXCEPT !.room_states[room_id].visited = ~@]
    ELSE w

set_room_visited(w, room_id) ==
    IF room_id \in DOMAIN w.room_states
    THEN [w EXCEPT !.room_states[room_id].visited = TRUE]
    ELSE w

unlock_room(w, room_id) ==
    IF room_id \in DOMAIN w.room_states /\ w.room_states[room_id].locked
    THEN [w EXCEPT !.room_states[room_id].locked = FALSE]
    ELSE w

\* unlock_room's return value, True for every room the world knows
unlock_room_return_Known(w, room_id) == room_id \in DOMAIN w.room_states

\* unlock_room's return value: True when the call cleared the flag
unlock_room_return(w, room_id) ==
    room_id \in DOMAIN w.room_states /\ w.room_states[room_id].locked

get_items_in_room(w, room_id) ==
    LET items_from_locations ==
            {i \in DOMAIN w.item_locations : w.item_locations[i] = room_id}
    IN IF room_id \in RoomIds /\ "items" \in DOMAIN RoomData[room_id]
       THEN items_from_locations \cup RoomData[room_id].items
       ELSE items_from_locations

get_enemies_in_room(w, room_id) ==
    LET enemies_from_locations ==
            {e \in DOMAIN w.enemy_locations : w.enemy_locations[e] = room_id}
    IN IF room_id \in DOMAIN w.room_enemies
       THEN enemies_from_locations \cup w.room_enemies[room_id]
       ELSE enemies_from_locations

get_npcs_in_room(w, room_id) ==
    LET npcs_from_locations ==
            {n \in DOMAIN w.npc_locations : w.npc_locations[n] = room_id}
    IN IF room_id \in RoomIds /\ "npcs" \in DOMAIN RoomData[room_id]
       THEN npcs_from_locations \cup RoomData[room_id].npcs
       ELSE npcs_from_locations

get_enemy(enemy_id) == Get(WorldEnemies, enemy_id, None)

\* get_state: the five maps that are saved; the rooms' own lists are not
\* among them
get_state(w) ==
    [item_locations |-> w.item_locations,
     enemy_locations |-> w.enemy_locations,
     npc_locations |-> w.npc_locations,
     room_states |-> w.room_states,
     item_spawn_counts |-> w.item_spawn_counts]

\* set_state: the five maps replaced, everything else of the world kept
set_state(w, state_data) ==
    [w EXCEPT !.item_locations = Get(state_data, "item_locations", EmptyDict),
              !.enemy_locations = Get(state_data, "enemy_locations", EmptyDict),
              !.npc_locations = Get(state_data, "npc_locations", EmptyDict),
              !.room_states = Get(state_data, "room_states", EmptyDict),
              !.item_spawn_counts = Get(state_data, "item_spawn_counts", EmptyDict)]

\* remove_enemy_from_room: the world afterwards and the value returned.
\* With no entry under the id, the first entry whose enemy's display name
\* is the id is taken; the names of the catalog are distinct.
remove_enemy_from_room(w, enemy_id) ==
    LET by_name == {e \in DOMAIN w.enemy_locations :
                       e \in DOMAIN WorldEnemies
                       /\ Get(WorldEnemies[e], "name", None) = enemy_id}
        found == IF enemy_id \in DOMAIN w.enemy_locations THEN {enemy_id}
                 ELSE IF by_name # {} THEN {CHOOSE e \in by_name : TRUE}
                 ELSE {}
    IN IF found = {}
       THEN [w |-> w, ok |-> FALSE]
       ELSE LET actual == CHOOSE e \in found : TRUE
                room_id == w.enemy_locations[actual]
                w1 == [w EXCEPT !.enemy_locations = DictDel(@, actual)]
            IN [w |-> IF room_id \in DOMAIN w1.room_enemies
                      THEN [w1 EXCEPT !.room_enemies[room_id] =
                               {e \in @ : ~StartsWith(e, BaseId(actual))}]
                      ELSE w1,
                ok |-> TRUE]

remove_item_from_room(w, item_id) ==
    IF item_id \in DOMAIN w.item_locations
    THEN [w EXCEPT !.item_locations = DictDel(@, item_id)]
    ELSE w

add_item_to_room(w, item_id, room_id) ==
    [w EXCEPT !.item_locations = DictSet(@, item_id, room_id)]

\* the rarity group place_items files an item under.  A catalog entry
\* whose rarity is a number carries it as rarity_number, one whose rarity
\* is a category as rarity.
Rarity(item_data) ==
    LET rarity == IF "rarity_number" \in DOMAIN item_data
                  THEN item_data.rarity_number
                  ELSE Get(item_data, "rarity", "common")
    IN IF "rarity_number" \in DOMAIN item_data
       THEN IF rarity < 2 THEN "legendary"
            ELSE IF rarity < 5 THEN "epic"
            ELSE IF rarity < 10 THEN "rare"
            ELSE IF rarity < 20 THEN "uncommon"
            ELSE "common"
       ELSE IF rarity \in {"common", "uncommon", "rare", "epic", "legendary"}
       THEN rarity
       ELSE "common"

\* whether place_items skips an item for the player's class
ClassMismatch(item_data, player_class) ==
    IF player_class = None THEN FALSE
    ELSE IF "class_restriction" \in DOMAIN item_data
    THEN player_class \notin item_data.class_restriction
    ELSE IF "allowed_classes" \in DOMAIN item_data
    THEN player_class \notin item_data.allowed_classes
    ELSE FALSE

\* place_items gathering every item into its rarity group, whatever its
\* spawn count
PlaceCandidates_NoSpawnCheck(w, player_class) ==
    {i \in ItemIds :
        /\ i \notin DOMAIN w.item_locations
        /\ ~ClassMismatch(ItemData[i], player_class)}

\* the items place_items gathers into the rarity groups
PlaceCandidates(w, player_class) ==
    {i \in ItemIds :
        /\ i \notin DOMAIN w.item_locations
        /\ ~ClassMismatch(ItemData[i], player_class)
        /\ ~(Get(w.item_spawn_counts, i, 0) >= Get(ItemData[i], "max_spawn", 1))}

\* num_rooms * base_items_per_room
TargetItemCount == Cardinality(RoomIds) * 2

\* the sets of candidates the placement loop can draw before it stops.  A
\* turn of the loop draws one item or drops one exhausted rarity group, so
\* with enough turns for both every candidate is drawn.
DrawnSets(candidates) ==
    LET n == Cardinality(candidates)
        k == Cardinality({Rarity(ItemData[i]) : i \in candidates})
    IN IF n + k <= TargetItemCount
       THEN {candidates}
       ELSE {S \in SUBSET candidates :
                /\ Cardinality(S) <= TargetItemCount
                /\ Cardinality(S) >= TargetItemCount - k}

\* _place_single_item choosing among locked rooms as well
EligibleRooms_Locked(w, item_id) ==
    LET allowed_rooms == Get(ItemData[item_id], "allowed_rooms", {})
    IN IF allowed_rooms # {}
       THEN {r \in allowed_rooms : r \in RoomIds}
       ELSE RoomIds

\* the rooms _place_single_item chooses from
EligibleRooms(w, item_id) ==
    LET allowed_rooms == Get(ItemData[item_id], "allowed_rooms", {})
        unlocked(r) == ~Get(Get(w.room_states, r, EmptyDict), "locked", FALSE)
    IN IF allowed_rooms # {}
       THEN {r \in allowed_rooms : r \in RoomIds /\ unlocked(r)}
       ELSE {r \in RoomIds : unlocked(r)}

\* the worlds _place_single_item can leave: the item in one of its eligible
\* rooms with its spawn count raised, or the world as it is with none
place_single_item(w, item_id) ==
    IF EligibleRooms(w, item_id) = {}
    THEN {w}
    ELSE {[w EXCEPT !.item_locations = DictSet(@, item_id, r),
                    !.item_spawn_counts =
                        DictSet(@, item_id, Get(@, item_id, 0) + 1)] :
            r \in EligibleRooms(w, item_id)}

RECURSIVE PlaceAll(_, _)
PlaceAll(ws, items) ==
    IF items = {} THEN ws
    ELSE LET i == CHOOSE x \in items : TRUE
         IN PlaceAll(UNION {place_single_item(w, i) : w \in ws}, items \ {i})

\* the worlds place_items(player_class) can leave
place_items(w, player_class) ==
    UNION {PlaceAll({w}, S) : S \in DrawnSets(PlaceCandidates(w, player_class))}

discover_room(w, room_id) ==
    IF room_id \in DOMAIN w.room_states /\ Get(w.room_states[room_id], "hidden", FALSE)
    THEN [w EXCEPT !.room_states[room_id].hidden = FALSE]
    ELSE w

\* discover_room's return value: True when the call cleared the flag
discover_room_return(w, room_id) ==
    room_id \in DOMAIN w.room_states /\ Get(w.room_states[room_id], "hidden", FALSE)

get_exits(room_id) ==
    IF room_id \in RoomIds THEN Get(RoomData[room_id], "exits", {}) ELSE {}

\* can_move_to without its exit check
can_move_to_NoExitCheck(w, from_room, to_room) ==
    LET room_state == get_room_state(w, to_room)
    IN IF Get(room_state, "hidden", FALSE)
       THEN [allowed |-> FALSE, reason |-> "hidden", key |-> None]
       ELSE IF Get(room_state, "locked", FALSE)
       THEN [allowed |-> FALSE, reason |-> "locked",
             key |-> Get(room_state, "key_required", None)]
       ELSE [allowed |-> TRUE, reason |-> None, key |-> None]

\* can_move_to without its hidden check
can_move_to_NoHiddenCheck(w, from_room, to_room) ==
    LET room_state == get_room_state(w, to_room)
    IN IF to_room \notin get_exits(from_room)
       THEN [allowed |-> FALSE, reason |-> "no_exit", key |-> None]
       ELSE IF Get(room_state, "locked", FALSE)
       THEN [allowed |-> FALSE, reason |-> "locked",
             key |-> Get(room_state, "key_required", None)]
       ELSE [allowed |-> TRUE, reason |-> None, key |-> None]

\* the (allowed, reason) pair can_move_to returns; the reason is kept as
\* the kind of message and the key the message names
can_move_to(w, from_room, to_room) ==
    LET room_state == get_room_state(w, to_room)
    IN IF to_room \notin get_exits(from_room)
       THEN [allowed |-> FALSE, reason |-> "no_exit", key |-> None]
       ELSE IF Get(room_state, "hidden", FALSE)
       THEN [allowed |-> FALSE, reason |-> "hidden", key |-> None]
       ELSE IF Get(room_state, "locked", FALSE)
       THEN [allowed |-> FALSE, reason |-> "locked",
             key |-> Get(room_state, "key_required", None)]
       ELSE [allowed |-> TRUE, reason |-> None, key |-> None]

(***************************************************************************)
(* Combat Engine (src/src/combat.py).  active_cooldowns maps a player_id   *)
(* to that player's dict attack_id -> remaining turns.  An operation is an *)
(* operator from the cooldowns before the call to those after it, and a    *)
(* second operator for the value it returns.                               *)
(***************************************************************************)
get_attack_data(attack_id) == Get(AttackData, attack_id, None)

get_attacks_for_class(player_class) ==
    CASE player_class = "fighter" -> {"strike", "power_strike", "shield_bash"}
      [] player_class = "mage" -> {"arcane_bolt", "fireball", "frost_nova"}
      [] player_class = "celtic" -> {"nature_strike", "ancient_fury", "healing_strike"}
      [] OTHER -> {"strike"}

\* `if player_id not in self.active_cooldowns: self.initialize_cooldowns(player_id)`
initialize_if_absent(cds, player_id) ==
    IF player_id \in DOMAIN cds THEN cds ELSE DictSet(cds, player_id, EmptyDict)

\* attack_data.get('bonus_damage', attack_data.get('damage', 0))
BonusDamage(attack_data) ==
    Get(attack_data, "bonus_damage", Get(attack_data, "damage", 0))

\* CombatSystem.calculate_damage
\* calculate_damage without the fallback to the legacy damage field
combat_calculate_damage_NoLegacy(base_player_damage, attack_id) ==
    IF attack_id \notin DOMAIN AttackData
    THEN base_player_damage
    ELSE base_player_damage + Get(get_attack_data(attack_id), "bonus_damage", 0)

combat_calculate_damage(base_player_damage, attack_id) ==
    IF attack_id \notin DOMAIN AttackData
    THEN base_player_damage
    ELSE base_player_damage + BonusDamage(get_attack_data(attack_id))

\* the cooldown test never finding an attack on cooldown
OnCooldown_Never(cds, player_id, attack_id) == FALSE

OnCooldown(cds, player_id, attack_id) ==
    /\ attack_id \in DOMAIN cds[player_id]
    /\ cds[player_id][attack_id] > 0

\* attack_data.get('accuracy'), 90 when the attack gives none
Accuracy(attack_data) == Get(attack_data, "accuracy", 90)

\* the fallback to a basic attack reported as a failure
basic_attack_result_Fails(player_base_damage) ==
    [damage |-> 0,
     message |-> [kind |-> "basic", name |-> None, n |-> 0],
     healing_amount |-> 0, enemy_damage_reduction |-> 0,
     success |-> FALSE, bonus_damage |-> 0]

\* what perform_attack returns for an attack id the catalog does not have
basic_attack_result(player_base_damage) ==
    [damage |-> player_base_damage,
     message |-> [kind |-> "basic", name |-> None, n |-> 0],
     healing_amount |-> 0, enemy_damage_reduction |-> 0,
     success |-> TRUE, bonus_damage |-> 0]

\* the dict perform_attack returns; roll is the value random.randint(1, 100)
\* gives.  The message is kept as its kind, the attack name it carries and
\* the number it carries.
perform_attack_result(p, attack_id, roll, cds0) ==
    LET player_id == p.player_id
        player_base_damage == calculate_damage(p)
        cds == initialize_if_absent(cds0, player_id)
    IN IF attack_id \notin DOMAIN AttackData
       THEN basic_attack_result(player_base_damage)
       ELSE LET attack_data == get_attack_data(attack_id)
            IN IF OnCooldown(cds, player_id, attack_id)
               THEN [damage |-> player_base_damage,
                     message |-> [kind |-> "on_cooldown", name |-> attack_data.name,
                                  n |-> cds[player_id][attack_id]],
                     healing_amount |-> 0, enemy_damage_reduction |-> 0,
                     success |-> FALSE, bonus_damage |-> 0]
               ELSE IF roll > Accuracy(attack_data)
               THEN [damage |-> 0,
                     message |-> [kind |-> "missed",
                                  name |-> Get(attack_data, "name", attack_id), n |-> 0],
                     healing_amount |-> 0, enemy_damage_reduction |-> 0,
                     success |-> FALSE, bonus_damage |-> 0]
               ELSE LET damage == combat_calculate_damage(player_base_damage, attack_id)
                    IN [damage |-> damage,
                        message |-> [kind |-> "hit", name |-> attack_data.name, n |-> damage],
                        healing_amount |-> Get(attack_data, "healing", 0),
                        enemy_damage_reduction |->
                            Get(attack_data, "enemy_damage_reduction", 0),
                        success |-> TRUE, bonus_damage |-> BonusDamage(attack_data)]

\* whether this call reaches the hit branch
AttackHits(p, attack_id, roll, cds0) ==
    /\ attack_id \in DOMAIN AttackData
    /\ ~OnCooldown(initialize_if_absent(cds0, p.player_id), p.player_id, attack_id)
    /\ ~(roll > Accuracy(get_attack_data(attack_id)))

\* perform_attack setting the cooldown before the accuracy roll
perform_attack_cooldowns_OnMiss(p, attack_id, roll, cds0) ==
    LET player_id == p.player_id
        cds == initialize_if_absent(cds0, player_id)
    IN IF attack_id \in DOMAIN AttackData
          /\ ~OnCooldown(cds, player_id, attack_id)
          /\ Get(get_attack_data(attack_id), "cooldown", 0) > 0
       THEN [cds EXCEPT ![player_id] =
                DictSet(@, attack_id, get_attack_data(attack_id).cooldown)]
       ELSE cds

\* active_cooldowns after perform_attack: set only on a hit
perform_attack_cooldowns(p, attack_id, roll, cds0) ==
    LET player_id == p.player_id
        cds == initialize_if_absent(cds0, player_id)
    IN IF AttackHits(p, attack_id, roll, cds0)
          /\ Get(get_attack_data(attack_id), "cooldown", 0) > 0
       THEN [cds EXCEPT ![player_id] =
                DictSet(@, attack_id, get_attack_data(attack_id).cooldown)]
       ELSE cds

\* update_cooldowns clearing every running cooldown at once
update_cooldowns_ToZero(p, cds) ==
    IF p.player_id \notin DOMAIN cds
    THEN cds
    ELSE [cds EXCEPT ![p.player_id] = [a \in DOMAIN @ |-> IF @[a] > 0 THEN 0 ELSE @[a]]]

update_cooldowns(p, cds) ==
    IF p.player_id \notin DOMAIN cds
    THEN cds
    ELSE [cds EXCEPT ![p.player_id] =
            [a \in DOMAIN @ |-> IF @[a] > 0 THEN @[a] - 1 ELSE @[a]]]

reset_cooldowns(p, cds) == DictSet(cds, p.player_id, EmptyDict)

\* the learned spells of any class taken as attack ids
SpellAttackIds_AnyClass(player_class, learned_spells) ==
    {SpellAttackId[learned_spells[i].spell_name] : i \in 1..Len(learned_spells)}
        \cap DOMAIN AttackData

\* the attack ids of the learned spells the class may cast
SpellAttackIds(player_class, learned_spells) ==
    IF Len(learned_spells) > 0 /\ player_class \in {"mage", "celtic"}
    THEN {SpellAttackId[learned_spells[i].spell_name] : i \in 1..Len(learned_spells)}
            \cap DOMAIN AttackData
    ELSE {}

\* the dict get_available_attacks returns: per attack id the copy of its
\* definition with bonus_damage filled in, on_cooldown and, when on
\* cooldown, cooldown_remaining
get_available_attacks(p, learned_spells, cds0) ==
    LET player_id == p.player_id
        cds == initialize_if_absent(cds0, player_id)
        all_attack_ids == get_attacks_for_class(p.player_class)
                            \cup SpellAttackIds(p.player_class, learned_spells)
    IN [a \in {x \in all_attack_ids : x \in DOMAIN AttackData} |->
          IF OnCooldown(cds, player_id, a)
          THEN [definition |-> AttackData[a],
                bonus_damage |-> BonusDamage(AttackData[a]),
                on_cooldown |-> TRUE,
                cooldown_remaining |-> cds[player_id][a]]
          ELSE [definition |-> AttackData[a],
                bonus_damage |-> BonusDamage(AttackData[a]),
                on_cooldown |-> FALSE]]

(***************************************************************************)
(* The command layer (src/src/command_handler.py).  A command is an        *)
(* operator from the player and the world before it to the pair after it   *)
(* and to whether the command was carried out (ok) or refused.  No entry   *)
(* of the catalog declares an on_take, on_drop or on_read effect, and the  *)
(* only on_use effect is the potion's heal, which _handle_consumable_item  *)
(* applies itself, so execute_effect is never entered.                     *)
(***************************************************************************)
Refused(p, w) == [ok |-> FALSE, p |-> p, w |-> w, exited |-> FALSE]
Done(p, w) == [ok |-> TRUE, p |-> p, w |-> w, exited |-> FALSE]

\* a command that ran an effect: e is what execute_effect left
Effected(e) == [ok |-> TRUE, p |-> e.p, w |-> e.w, exited |-> e.exited]

\* execute_effect going on after the damage whatever the player's health
execute_effect_NoGameOver(p, w, effect) ==
    [p |-> IF "damage" \in DOMAIN effect THEN take_damage(p, effect.damage) ELSE p,
     w |-> w, exited |-> FALSE]

\* execute_effect for an effect given as a dict: heal, damage (game_over
\* calls exit(0) when the player is dead, so nothing after it runs),
\* add_status_effect, add_item, remove_item and unlock_room in that order.
\* No effect of the catalog spawns an enemy.
execute_effect(p, w, effect) ==
    LET p1 == IF "heal" \in DOMAIN effect THEN heal(p, effect.heal) ELSE p
        p2 == IF "damage" \in DOMAIN effect THEN take_damage(p1, effect.damage) ELSE p1
        p3 == IF "add_status_effect" \in DOMAIN effect
              THEN LET status_data == effect.add_status_effect
                   IN add_status_effect(p2, status_data.id, status_data,
                                        Get(status_data, "duration", 3))
              ELSE p2
        p4 == IF "add_item" \in DOMAIN effect /\ effect.add_item \in ItemIds
              THEN add_to_inventory(p3, effect.add_item) ELSE p3
        p5 == IF "remove_item" \in DOMAIN effect /\ has_item(p4, effect.remove_item)
              THEN remove_from_inventory(p4, effect.remove_item) ELSE p4
        w1 == IF "unlock_room" \in DOMAIN effect THEN unlock_room(w, effect.unlock_room) ELSE w
    IN IF "damage" \in DOMAIN effect /\ ~is_alive(p2)
       THEN [p |-> p2, w |-> w, exited |-> TRUE]
       ELSE [p |-> p5, w |-> w1, exited |-> FALSE]

take_item(p, w, item_id) ==
    IF item_id \notin get_items_in_room(w, p.current_room)
    THEN Refused(p, w)
    ELSE IF item_id \notin ItemIds
    THEN Refused(p, w)
    ELSE IF ~Get(ItemData[item_id], "takeable", TRUE)
    THEN Refused(p, w)
    ELSE LET p1 == add_to_inventory(p, item_id)
             w1 == remove_item_from_room(w, item_id)
         IN IF "on_take" \in DOMAIN ItemData[item_id]
            THEN Effected(execute_effect(p1, w1, ItemData[item_id].on_take))
            ELSE Done(p1, w1)

drop_item(p, w, item_id) ==
    IF ~has_item(p, item_id)
    THEN Refused(p, w)
    ELSE IF Get(InvItem(p, item_id), "droppable", TRUE) = FALSE
    THEN Refused(p, w)
    ELSE LET p1 == remove_from_inventory(p, item_id)
             w1 == add_item_to_room(w, item_id, p.current_room)
         IN IF "on_drop" \in DOMAIN InvItem(p, item_id)
            THEN Effected(execute_effect(p1, w1, InvItem(p, item_id).on_drop))
            ELSE Done(p1, w1)

\* rooms among exits that are locked and that the key unlocks, all unlocked
RECURSIVE UnlockAll(_, _)
UnlockAll(w, rooms) ==
    IF rooms = {} THEN w
    ELSE LET r == CHOOSE x \in rooms : TRUE
         IN UnlockAll(unlock_room(w, r), rooms \ {r})

handle_key_item(p, w, item_id) ==
    LET unlocks == Get(InvItem(p, item_id), "unlocks", {})
        opened == {r \in get_exits(p.current_room) :
                      Get(get_room_state(w, r), "locked", FALSE) /\ r \in unlocks}
    IN UnlockAll(w, opened)

handle_weapon_item(p, item_id) ==
    LET old_weapon_id == p.equipped_weapon
        p1 == equip_weapon(p, item_id)
    IN IF old_weapon_id # None /\ old_weapon_id # item_id /\ old_weapon_id \in p1.inventory
       THEN remove_from_inventory(p1, old_weapon_id)
       ELSE p1

\* the healing branch of _handle_consumable_item
handle_consumable_item(p, item_id) ==
    LET on_use == Get(InvItem(p, item_id), "on_use", EmptyDict)
        p1 == IF "heal" \in DOMAIN on_use THEN heal(p, on_use.heal) ELSE p
    IN IF "heal" \in DOMAIN on_use /\ "status_effect" \in DOMAIN on_use
       THEN LET effect_data == on_use.status_effect
            IN add_status_effect(p1, Get(effect_data, "id", item_id),
                                 effect_data, Get(effect_data, "duration", 3))
       ELSE p1

handle_upgrade_item(p, item_id) ==
    LET effects == Get(InvItem(p, item_id), "effects", EmptyDict)
        p1 == IF "permanent_health" \in DOMAIN effects
              THEN increase_max_health(p, effects.permanent_health) ELSE p
    IN IF "permanent_damage" \in DOMAIN effects
       THEN increase_damage(p1, effects.permanent_damage) ELSE p1

\* the catalog's item types are plain words, so `"weapon" in str(item_type)`
\* is the same test as item_type == "weapon"
use_item(p, w, item_id) ==
    IF ~has_item(p, item_id)
    THEN Refused(p, w)
    ELSE LET item == InvItem(p, item_id)
             item_type == Get(item, "type", None)
             is_weapon == item_type = "weapon"
             on_use(p0) == IF "on_use" \in DOMAIN item
                           THEN execute_effect(p0, w, item.on_use)
                           ELSE [p |-> p0, w |-> w, exited |-> FALSE]
             used ==
                CASE item_type = "key" ->
                        [p |-> p, w |-> handle_key_item(p, w, item_id), exited |-> FALSE]
                  [] is_weapon ->
                        [p |-> handle_weapon_item(p, item_id), w |-> w, exited |-> FALSE]
                  [] item_type = "lore" -> [p |-> p, w |-> w, exited |-> FALSE]
                  [] item_type = "consumable"
                       \/ "heal" \in DOMAIN Get(item, "on_use", EmptyDict) ->
                        IF "heal" \in DOMAIN Get(item, "on_use", EmptyDict)
                        THEN [p |-> handle_consumable_item(p, item_id), w |-> w,
                              exited |-> FALSE]
                        ELSE on_use(p)
                  [] item_type = "upgrade" -> on_use(handle_upgrade_item(p, item_id))
                  [] OTHER -> on_use(p)
         IN IF ~(Get(item, "usable", FALSE) \/ is_weapon)
            THEN Refused(p, w)
            ELSE IF ~can_use_item(p, item)
            THEN Refused(p, w)
            ELSE IF used.exited
            THEN Effected(used)
            ELSE IF Get(item, "consumed_on_use", FALSE)
            THEN Done(remove_from_inventory(used.p, item_id), used.w)
            ELSE Done(used.p, used.w)

\* change_directory moving with the key without unlocking the room
change_directory_NoUnlock(p, w, directory) ==
    LET cm == can_move_to(w, p.current_room, directory)
        room_state == get_room_state(w, directory)
        key_required == Get(room_state, "key_required", None)
        has_key == ~cm.allowed /\ cm.reason = "locked"
                   /\ key_required # None /\ has_item(p, key_required)
        key_opens == has_key /\
                     LET key_item == InvItem(p, key_required)
                     IN (directory \in Get(key_item, "unlocks", {}))
                        \/ Get(key_item, "usable", FALSE)
        w1 == w
        can_move == cm.allowed \/ key_opens
    IN IF Get(room_state, "hidden", FALSE)
       THEN Refused(p, w)
       ELSE IF ~can_move
       THEN Refused(p, w1)
       ELSE LET p1 == move_to(p, directory)
            IN Done(p1, IF directory \in RoomIds THEN set_room_visited(w1, directory) ELSE w1)

\* change_directory up to the move; display_location then marks the room
\* the player is in as visited
change_directory(p, w, directory) ==
    LET cm == can_move_to(w, p.current_room, directory)
        room_state == get_room_state(w, directory)
        key_required == Get(room_state, "key_required", None)
        has_key == ~cm.allowed /\ cm.reason = "locked"
                   /\ key_required # None /\ has_item(p, key_required)
        key_opens == has_key /\
                     LET key_item == InvItem(p, key_required)
                     IN (directory \in Get(key_item, "unlocks", {}))
                        \/ Get(key_item, "usable", FALSE)
        w1 == IF key_opens THEN unlock_room(w, directory) ELSE w
        can_move == cm.allowed \/ key_opens
    IN IF Get(room_state, "hidden", FALSE)
       THEN Refused(p, w)
       ELSE IF ~can_move
       THEN Refused(p, w1)
       ELSE LET p1 == move_to(p, directory)
            IN Done(p1, IF directory \in RoomIds THEN set_room_visited(w1, directory) ELSE w1)

\* what change_directory prints: the refusal for a hidden room, the reason
\* can_move_to gave (with the key it names), or the change of room
change_directory_message(p, w, directory) ==
    LET cm == can_move_to(w, p.current_room, directory)
        r == change_directory(p, w, directory)
    IN IF Get(get_room_state(w, directory), "hidden", FALSE)
       THEN [kind |-> "path_not_exist", key |-> None]
       ELSE IF ~r.ok
       THEN [kind |-> cm.reason, key |-> cm.key]
       ELSE [kind |-> "changed", key |-> None]

\* combat(enemy_id, enemy).  input is what the player would key in and the
\* roll the attack would draw.  Player defines no get_available_attacks
\* (nor perform_attack, nor update_cooldowns), so the first round raises
\* AttributeError at the call in line 837, before any input is read; the
\* exception leaves combat, the command and handle_command and is caught
\* by the game loop, which prints it.  With the loop not entered only the
\* aftermath runs, which logs the outcome.  actions and enemy_actions count
\* the turns the player and the enemy took, reset_calls the calls of
\* combat_system.reset_cooldowns: combat holds none, and no key it accepts
\* is a flee.
combat(p, w, cds, enemy_id, input) ==
    LET enemy == WorldEnemies[enemy_id]
        enemy_health == Get(enemy, "health", 50)
    IN IF enemy_health > 0 /\ is_alive(p)
       THEN [p |-> p, w |-> w, cds |-> cds, outcome |-> "AttributeError",
             enemy_health |-> enemy_health, actions |-> 0,
             enemy_actions |-> 0, reset_calls |-> 0]
       ELSE [p |-> p, w |-> w, cds |-> cds,
             outcome |-> IF enemy_health <= 0 THEN "ENEMY_DEFEATED"
                         ELSE "PLAYER_DEFEATED",
             enemy_health |-> enemy_health, actions |-> 0,
             enemy_actions |-> 0, reset_calls |-> 0]

NoCombat(p, w, cds) ==
    [p |-> p, w |-> w, cds |-> cds, outcome |-> None, enemy_health |-> 0, actions |-> 0,
     enemy_actions |-> 0, reset_calls |-> 0]

\* check_for_enemies with enemy_id the first enemy get_enemies_in_room lists
check_for_enemies(p, w, cds, enemy_id, input) ==
    IF enemy_id \notin DOMAIN WorldEnemies
    THEN NoCombat(p, w, cds)
    ELSE IF ~Get(WorldEnemies[enemy_id], "auto_attack", TRUE)
    THEN NoCombat(p, w, cds)
    ELSE combat(p, w, cds, enemy_id, input)

\* whether check_for_enemies starts combat with this enemy
f_started(enemy_id) ==
    enemy_id \in DOMAIN WorldEnemies /\ Get(WorldEnemies[enemy_id], "auto_attack", TRUE)

attack_enemy(p, w, cds, enemy_id, input) ==
    IF enemy_id \notin get_enemies_in_room(w, p.current_room)
    THEN NoCombat(p, w, cds)
    ELSE IF enemy_id \notin DOMAIN WorldEnemies
    THEN NoCombat(p, w, cds)
    ELSE combat(p, w, cds, enemy_id, input)

(***************************************************************************)
(* State.                                                                  *)
(***************************************************************************)
VARIABLES
    player,            \* the session's Player object
    world,             \* the GameWorld's mutable maps
    active_cooldowns,  \* CombatSystem.active_cooldowns: player_id -> attack_id -> turns
    call,              \* the last operation invoked, with its arguments
    result,            \* what that operation returned
    rt,                \* the take the last command was, for the take/drop round trip
    hit_updates,       \* attack_id -> update_cooldowns calls since its last hit
    effect_updates,    \* effect_id -> update_status_effects calls since it was added
    running            \* whether the process is still running: FALSE after exit(0)

vars == <<player, world, active_cooldowns, call, result, rt, hit_updates, effect_updates,
          running>>
combat_vars == <<active_cooldowns, hit_updates, effect_updates>>

NoCall == [op |-> None]
NoRt == [stage |-> None]

\* GameEngine.select_player_class creates the player in room "root";
\* run() then shows the start room (display_location marks it visited)
\* a new game: the player of the chosen class, the items placed for that
\* class, and the first display_location
InitSession(classes) ==
    /\ \E c \in classes :
          /\ player = NewPlayer(c, StartRoom, "p1")
          /\ \E w \in place_items(InitWorld, c) : world = set_room_visited(w, StartRoom)
    /\ active_cooldowns = EmptyDict
    /\ call = NoCall
    /\ result = NoCall
    /\ rt = NoRt
    /\ hit_updates = EmptyDict
    /\ effect_updates = EmptyDict
    /\ running = TRUE

TakeItem(item_id) ==
    LET r == take_item(player, world, item_id)
    IN /\ running
       /\ running' = ~r.exited
       /\ player' = r.p
       /\ world' = r.w
       /\ call' = [op |-> "take", id |-> item_id]
       /\ result' = [ok |-> r.ok]
       /\ rt' = IF r.ok
                THEN [stage |-> "taken", item |-> item_id, room |-> player.current_room,
                      item_locations |-> world.item_locations,
                      inventory |-> player.inventory]
                ELSE NoRt
       /\ UNCHANGED combat_vars

DropItem(item_id) ==
    LET r == drop_item(player, world, item_id)
    IN /\ running
       /\ running' = ~r.exited
       /\ player' = r.p
       /\ world' = r.w
       /\ call' = [op |-> "drop", id |-> item_id,
                   equipped_before |-> player.equipped_weapon]
       /\ result' = [ok |-> r.ok]
       /\ rt' = IF r.ok /\ rt.stage = "taken" /\ rt.item = item_id
                   /\ rt.room = player.current_room
                THEN [rt EXCEPT !.stage = "dropped"]
                ELSE NoRt
       /\ UNCHANGED combat_vars

UseItem(item_id) ==
    LET r == use_item(player, world, item_id)
    IN /\ running
       /\ running' = ~r.exited
       /\ r.p.total_damage <= MaxTotalDamage
       /\ player' = r.p
       /\ world' = r.w
       /\ call' = [op |-> "use", id |-> item_id]
       /\ result' = [ok |-> r.ok]
       /\ rt' = NoRt
       /\ UNCHANGED combat_vars

\* the inputs an encounter can be given: one of the attacks the player's
\* class has a definition for or the wish to flee, and a roll that hits or
\* one that misses
CombatInputs(p) ==
    [choice : (get_attacks_for_class(p.player_class) \cap DOMAIN AttackData) \cup {"flee"},
     roll : {1, 100}]

NoInput == [choice |-> None, roll |-> 0]

\* cd: change_directory, then display_location and check_for_enemies for
\* the first enemy the room lists
ChangeDirectory(directory) ==
    LET r == change_directory(player, world, directory)
        foes == IF r.ok THEN get_enemies_in_room(r.w, r.p.current_room) ELSE {}
    IN \E e \in IF foes = {} THEN {None} ELSE foes :
       \E input \in IF foes = {} THEN {NoInput} ELSE CombatInputs(player) :
          LET f == IF e = None THEN NoCombat(r.p, r.w, active_cooldowns)
                   ELSE check_for_enemies(r.p, r.w, active_cooldowns, e,
                                          IF f_started(e) THEN input ELSE NoInput)
              given == IF e # None /\ f_started(e) THEN input ELSE NoInput
          IN /\ running
             /\ player' = f.p
             /\ world' = f.w
             /\ active_cooldowns' = f.cds
             /\ call' = [op |-> "cd", id |-> directory, from |-> player.current_room,
                         state_before |-> get_room_state(world, directory),
                         inventory_before |-> player.inventory,
                         enemy |-> IF f.outcome = None THEN None ELSE e,
                         input |-> given,
                         base |-> calculate_damage(player),
                         health_before |-> player.health,
                         effects_before |-> player.status_effects,
                         cooldowns_before |-> active_cooldowns]
             /\ result' = [ok |-> r.ok,
                           message |-> change_directory_message(player, world, directory),
                           outcome |-> f.outcome,
                           actions |-> f.actions,
                           enemy_actions |-> f.enemy_actions,
                           reset_calls |-> f.reset_calls]
             /\ rt' = NoRt
             /\ UNCHANGED <<hit_updates, effect_updates, running>>

\* attack <enemy>
AttackEnemy(enemy_id, input) ==
    LET f == attack_enemy(player, world, active_cooldowns, enemy_id, input)
    IN /\ running
       /\ f.outcome # None
       /\ player' = f.p
       /\ world' = f.w
       /\ active_cooldowns' = f.cds
       /\ call' = [op |-> "attack", id |-> enemy_id, from |-> player.current_room,
                   enemy |-> enemy_id, input |-> input,
                   base |-> calculate_damage(player),
                   health_before |-> player.health,
                   effects_before |-> player.status_effects,
                   cooldowns_before |-> active_cooldowns]
       /\ result' = [ok |-> TRUE, outcome |-> f.outcome, actions |-> f.actions,
                     enemy_actions |-> f.enemy_actions,
                     reset_calls |-> f.reset_calls]
       /\ rt' = NoRt
       /\ UNCHANGED <<hit_updates, effect_updates, running>>

(***************************************************************************)
(* Save and load (src/src/save.py, src/src/player.py, game_engine.py).     *)
(***************************************************************************)
\* Player.to_dict
to_dict(p) ==
    [name |-> p.name,
     player_class |-> p.player_class,
     health |-> p.health,
     max_health |-> p.max_health,
     total_damage |-> p.total_damage,
     permanent_health_boost |-> p.permanent_health_boost,
     permanent_damage_boost |-> p.permanent_damage_boost,
     spells |-> p.spells,
     inventory |-> p.inventory,
     equipped_weapon |-> p.equipped_weapon,
     current_room |-> p.current_room]

\* Player.from_dict: a new Player of the saved class, then the saved fields
\* over it; the new object has an id of its own
from_dict(data) ==
    LET fresh == NewPlayer(Get(data, "player_class", "guardian"),
                           Get(data, "current_room", "home_grove"), "p2")
    IN [fresh EXCEPT !.name = Get(data, "name", ""),
                     !.health = data.health,
                     !.max_health = data.max_health,
                     !.total_damage = Get(data, "total_damage", fresh.total_damage),
                     !.permanent_health_boost = Get(data, "permanent_health_boost", 0),
                     !.permanent_damage_boost = Get(data, "permanent_damage_boost", 0),
                     !.spells = Get(data, "spells", <<>>),
                     !.inventory = data.inventory,
                     !.equipped_weapon = data.equipped_weapon]

\* SaveManager.save_game: the save data is built from the player's
\* attributes, base_damage among them; reading an attribute the player does
\* not have raises AttributeError and nothing is written
save_game(p, world_state) ==
    IF "base_damage" \in DOMAIN p
    THEN [written |-> TRUE,
          player |-> [name |-> p.name,
                      player_class |-> p.player_class,
                      base_damage |-> p.base_damage,
                      health |-> p.health,
                      max_health |-> p.max_health,
                      permanent_health_boost |-> p.permanent_health_boost,
                      permanent_damage_boost |-> p.permanent_damage_boost,
                      inventory |-> p.inventory,
                      equipped_weapon |-> p.equipped_weapon,
                      current_room |-> p.current_room,
                      spells |-> p.spells],
          world |-> world_state]
    ELSE [written |-> FALSE, error |-> "AttributeError"]

\* quit, answered y: save_current_game
SaveCurrentGame ==
    /\ running
    /\ call' = [op |-> "save", player |-> player]
    /\ result' = save_game(player, None)
    /\ rt' = NoRt
    /\ UNCHANGED <<player, world, combat_vars, running>>

\* the player's snapshot taken and a player restored from it
SnapshotRoundTrip ==
    /\ running
    /\ call' = [op |-> "to_dict", player |-> player]
    /\ result' = [data |-> to_dict(player), restored |-> from_dict(to_dict(player))]
    /\ rt' = NoRt
    /\ UNCHANGED <<player, world, combat_vars, running>>

(***************************************************************************)
(* Spec: a session of take / drop / use / cd commands over the weapons and *)
(* the upgrade of the catalog, in the two rooms that hold them.            *)
(***************************************************************************)
CmdItems == {"sword", "axe", "chip"}
CmdRooms == {"root", "hall"}

Init == InitSession({"fighter", "mage"})

Next ==
    \/ \E i \in CmdItems : TakeItem(i)
    \/ \E i \in CmdItems : DropItem(i)
    \/ \E i \in CmdItems : UseItem(i)
    \/ \E d \in CmdRooms : ChangeDirectory(d)

Spec == Init /\ [][Next]_vars

(***************************************************************************)
(* SpecSave: a session of take / use / cd commands over the upgrade, the   *)
(* tonic and a weapon, saved or snapshotted at any point.                  *)
(***************************************************************************)

InitSave == InitSession({"fighter", "mage"})

NextSave ==
    \/ \E i \in {"chip", "tonic", "axe"} : TakeItem(i)
    \/ \E i \in {"chip", "tonic", "axe"} : UseItem(i)
    \/ \E d \in CmdRooms : ChangeDirectory(d)
    \/ SaveCurrentGame
    \/ SnapshotRoundTrip

SpecSave == InitSave /\ [][NextSave]_vars

(***************************************************************************)
(* SpecPlayer: heal, take_damage and increase_max_health applied to a      *)
(* player, with every amount in 0..MaxAmount and every health and          *)
(* max_health up to MaxMaxHealth.                                          *)
(***************************************************************************)
InitPlayer ==
    /\ \E m \in 1..MaxMaxHealth : \E h \in 0..m :
          player = [NewPlayer("guardian", StartRoom, "p1")
                        EXCEPT !.max_health = m, !.health = h]
    /\ world = set_room_visited(InitWorld, StartRoom)
    /\ active_cooldowns = EmptyDict
    /\ call = NoCall
    /\ result = NoCall
    /\ rt = NoRt
    /\ hit_updates = EmptyDict
    /\ effect_updates = EmptyDict
    /\ running = TRUE

Heal(amount) ==
    /\ player' = heal(player, amount)
    /\ call' = [op |-> "heal", amount |-> amount, health_before |-> player.health,
                max_health |-> player.max_health]
    /\ result' = [value |-> heal_return(player, amount)]
    /\ UNCHANGED <<world, rt, combat_vars, running>>

TakeDamage(amount) ==
    /\ player' = take_damage(player, amount)
    /\ call' = [op |-> "take_damage", amount |-> amount, health_before |-> player.health,
                max_health |-> player.max_health]
    /\ result' = [value |-> None]
    /\ UNCHANGED <<world, rt, combat_vars, running>>

IncreaseMaxHealth(amount) ==
    /\ player.max_health + amount <= MaxMaxHealth
    /\ player' = increase_max_health(player, amount)
    /\ call' = [op |-> "increase_max_health", amount |-> amount,
                health_before |-> player.health, max_health |-> player.max_health]
    /\ result' = [value |-> player'.max_health]
    /\ UNCHANGED <<world, rt, combat_vars, running>>

\* the reductions an attack definition can grant, in hundredths
Reductions == {0, 50, 100}

\* the damage of the enemy's turn: int(damage * (1 - enemy_damage_reduction))
\* when a reduction was granted, the enemy's flat damage otherwise
enemy_turn_damage(enemy_damage, reduction) ==
    IF reduction > 0
    THEN (enemy_damage * (100 - reduction)) \div 100
    ELSE enemy_damage

\* the enemy's turn of a round: the player takes the (reduced) damage
EnemyAttack(enemy_damage, reduction) ==
    /\ player' = take_damage(player, enemy_turn_damage(enemy_damage, reduction))
    /\ call' = [op |-> "enemy_attack", amount |-> enemy_damage,
                reduction |-> reduction, health_before |-> player.health,
                max_health |-> player.max_health]
    /\ result' = [value |-> enemy_turn_damage(enemy_damage, reduction)]
    /\ UNCHANGED <<world, rt, combat_vars, running>>

NextPlayer ==
    \/ \E a \in 0..MaxAmount : Heal(a)
    \/ \E a \in 0..MaxAmount : TakeDamage(a)
    \/ \E a \in 1..MaxAmount : IncreaseMaxHealth(a)
    \/ \E a \in 0..MaxAmount : \E r \in Reductions : EnemyAttack(a, r)

SpecPlayer == InitPlayer /\ [][NextPlayer]_vars

(***************************************************************************)
(* SpecCombat: the combat engine driven for one player: perform_attack     *)
(* with the attack ids offered to the player's class and one id the        *)
(* catalog does not define, update_cooldowns, reset_cooldowns,             *)
(* get_available_attacks, and status effects added to the player.          *)
(***************************************************************************)
\* the rolls that decide a hit for some accuracy of the catalog, and the
\* two ends of randint(1, 100)
Rolls ==
    {r \in 1..100 :
        \/ r \in {1, 100}
        \/ \E a \in DOMAIN AttackData :
              r \in {Accuracy(AttackData[a]), Accuracy(AttackData[a]) + 1}}

\* the player's entry for an attack: {} when the key is absent
CooldownEntry(cds, player_id, attack_id) ==
    IF player_id \in DOMAIN cds /\ attack_id \in DOMAIN cds[player_id]
    THEN {cds[player_id][attack_id]}
    ELSE {}

InitCombat ==
    /\ \E c \in {"fighter", "mage", "celtic"} : player = NewPlayer(c, StartRoom, "p1")
    /\ world = set_room_visited(InitWorld, StartRoom)
    /\ active_cooldowns = EmptyDict
    /\ call = NoCall
    /\ result = NoCall
    /\ rt = NoRt
    /\ hit_updates = EmptyDict
    /\ effect_updates = EmptyDict
    /\ running = TRUE

PerformAttack(attack_id, roll) ==
    /\ active_cooldowns' = perform_attack_cooldowns(player, attack_id, roll, active_cooldowns)
    /\ result' = perform_attack_result(player, attack_id, roll, active_cooldowns)
    /\ call' = [op |-> "perform_attack", id |-> attack_id, roll |-> roll,
                cd_before |-> CooldownEntry(active_cooldowns, player.player_id, attack_id),
                entries_before |-> Get(active_cooldowns, player.player_id, EmptyDict)]
    /\ hit_updates' =
         IF result'.success /\ attack_id \in DOMAIN AttackData
            /\ Get(AttackData[attack_id], "cooldown", 0) > 0
         THEN DictSet(hit_updates, attack_id, 0)
         ELSE hit_updates
    /\ UNCHANGED <<player, world, rt, effect_updates, running>>

UpdateCooldowns ==
    /\ active_cooldowns' = update_cooldowns(player, active_cooldowns)
    /\ hit_updates' = [a \in DOMAIN hit_updates |->
                          Min(hit_updates[a] + 1, AttackData[a].cooldown)]
    /\ call' = [op |-> "update_cooldowns",
                entries_before |-> Get(active_cooldowns, player.player_id, EmptyDict)]
    /\ result' = NoCall
    /\ UNCHANGED <<player, world, rt, effect_updates, running>>

ResetCooldowns ==
    /\ active_cooldowns' = reset_cooldowns(player, active_cooldowns)
    /\ hit_updates' = EmptyDict
    /\ call' = [op |-> "reset_cooldowns"]
    /\ result' = NoCall
    /\ UNCHANGED <<player, world, rt, effect_updates, running>>

GetAvailableAttacks ==
    /\ active_cooldowns' = initialize_if_absent(active_cooldowns, player.player_id)
    /\ result' = get_available_attacks(player, player.spells, active_cooldowns)
    /\ call' = [op |-> "get_available_attacks"]
    /\ UNCHANGED <<player, world, rt, hit_updates, effect_updates, running>>

\* execute_effect's add_status_effect branch
AddStatusEffect(effect_id) ==
    /\ player' = add_status_effect(player, effect_id, EffectData[effect_id],
                                   Get(EffectData[effect_id], "duration", 3))
    /\ call' = [op |-> "add_status_effect", id |-> effect_id]
    /\ result' = NoCall
    /\ UNCHANGED <<world, rt, combat_vars, running>>

\* the attack ids a caller passes: those of the player's class and learned
\* spells (command_handler.py:850-883 builds the choice from them) and one
\* unknown id
AttackArgs ==
    get_attacks_for_class(player.player_class)
        \cup SpellAttackIds(player.player_class, player.spells)
        \cup {UnknownAttack}

NextCombat ==
    \/ \E a \in AttackArgs : \E r \in Rolls : PerformAttack(a, r)
    \/ UpdateCooldowns
    \/ ResetCooldowns
    \/ GetAvailableAttacks
    \/ \E e \in DOMAIN EffectData : AddStatusEffect(e)

SpecCombat == InitCombat /\ [][NextCombat]_vars

(***************************************************************************)
(* SpecAttacks: get_available_attacks asked with every short list of       *)
(* learned spells, for a player of every class, while attacks are          *)
(* performed and cooldowns run down.                                       *)
(***************************************************************************)
MaxSpells == 2

\* the lists of learned spells a caller passes: spell dicts as learn_spell
\* stores them
SpellLists ==
    UNION {[1..n -> [spell_name : DOMAIN SpellAttackId]] : n \in 0..MaxSpells}

InitAttacks ==
    /\ \E c \in ClassIds : player = NewPlayer(c, StartRoom, "p1")
    /\ world = set_room_visited(InitWorld, StartRoom)
    /\ active_cooldowns = EmptyDict
    /\ call = NoCall
    /\ result = NoCall
    /\ rt = NoRt
    /\ hit_updates = EmptyDict
    /\ effect_updates = EmptyDict
    /\ running = TRUE

GetAvailableAttacksFor(learned_spells) ==
    /\ active_cooldowns' = initialize_if_absent(active_cooldowns, player.player_id)
    /\ result' = get_available_attacks(player, learned_spells, active_cooldowns)
    /\ call' = [op |-> "get_available_attacks", spells |-> learned_spells]
    /\ UNCHANGED <<player, world, rt, hit_updates, effect_updates, running>>

\* the orders in which a dict with these keys can list them
Orders(ids) ==
    {f \in [1..Cardinality(ids) -> ids] : \A x \in ids : \E i \in DOMAIN f : f[i] = x}

\* the selection of a round listing every attack under its number
attack_keys_All(available_attacks, order) ==
    [k \in 1..Len(order) |-> order[k]]

\* attack_keys as a round of combat() builds it from available_attacks,
\* listed in the given order: every attack is shown under the next number,
\* and the number is a key of attack_keys only if the attack is not on
\* cooldown.  The player of these specifications holds no item tagged
\* combat_usable, so no item gets a number.
attack_keys(available_attacks, order) ==
    [k \in {i \in 1..Len(order) : ~available_attacks[order[i]].on_cooldown} |-> order[k]]

\* the choice of a round: the key pressed is accepted if it is a key of
\* attack_keys and asked for again if not.  available_attacks is the dict
\* CombatSystem.get_available_attacks returns for the player.
ChooseAction(order, key) ==
    LET available_attacks == get_available_attacks(player, player.spells, active_cooldowns)
        keys == attack_keys(available_attacks, order)
    IN /\ order \in Orders(DOMAIN available_attacks)
       /\ active_cooldowns' = initialize_if_absent(active_cooldowns, player.player_id)
       /\ call' = [op |-> "choose", key |-> key, order |-> order]
       /\ result' = IF key \in DOMAIN keys
                    THEN [accepted |-> TRUE, action_id |-> keys[key]]
                    ELSE [accepted |-> FALSE, action_id |-> None]
       /\ UNCHANGED <<player, world, rt, hit_updates, effect_updates, running>>


NextAttacks ==
    \/ \E a \in get_attacks_for_class(player.player_class) \cup {"chain_lightning"} :
          PerformAttack(a, 1)
    \/ UpdateCooldowns
    \/ \E l \in SpellLists : GetAvailableAttacksFor(l)
    \/ \E order \in Orders(DOMAIN get_available_attacks(player, player.spells,
                                                        active_cooldowns)) :
          \E key \in 1..4 : ChooseAction(order, key)

SpecAttacks == InitAttacks /\ [][NextAttacks]_vars

(***************************************************************************)
(* SpecPlayers: one CombatSystem (the module's singleton) serving the      *)
(* players a process creates one after the other: a new game or a loaded   *)
(* save replaces the engine's player by a new Player object.  player_id is *)
(* id(self), which Python guarantees unique only among the objects alive   *)
(* at the same time: the new player is created while the one it replaces   *)
(* is still referenced, so its id differs from that one's and can be any   *)
(* other, the id of a player discarded earlier included.                   *)
(***************************************************************************)
PlayerIds == {"p1", "p2", "p3"}

InitPlayers ==
    /\ player = NewPlayer("mage", StartRoom, "p1")
    /\ world = set_room_visited(InitWorld, StartRoom)
    /\ active_cooldowns = EmptyDict
    /\ call = NoCall
    /\ result = NoCall
    /\ rt = NoRt
    /\ hit_updates = EmptyDict
    /\ effect_updates = EmptyDict
    /\ running = TRUE

\* GameEngine.select_player_class: Player(player_class=chosen_class, ...)
NewGame(class, pid) ==
    /\ pid # player.player_id
    /\ player' = NewPlayer(class, StartRoom, pid)
    /\ hit_updates' = EmptyDict
    /\ call' = [op |-> "new_player", id |-> pid, how |-> "new_game"]
    /\ result' = NoCall
    /\ UNCHANGED <<world, active_cooldowns, rt, effect_updates, running>>

\* GameEngine.load_saved_game: Player.from_dict(player_data)
LoadSavedGame(pid) ==
    /\ pid # player.player_id
    /\ player' = [from_dict(to_dict(player)) EXCEPT !.player_id = pid]
    /\ hit_updates' = EmptyDict
    /\ call' = [op |-> "new_player", id |-> pid, how |-> "load"]
    /\ result' = NoCall
    /\ UNCHANGED <<world, active_cooldowns, rt, effect_updates, running>>

NextPlayers ==
    \/ PerformAttack("fireball", 1)
    \/ UpdateCooldowns
    \/ ResetCooldowns
    \/ \E pid \in PlayerIds : NewGame("mage", pid)
    \/ \E pid \in PlayerIds : LoadSavedGame(pid)

SpecPlayers == InitPlayers /\ [][NextPlayers]_vars

(***************************************************************************)
(* SpecFlags: a session in which rooms get visited and get unlocked in     *)
(* each way the commands have: the automatic use of a held key by cd, the  *)
(* use of a key, and the unlock_room effect of an item.                    *)
(***************************************************************************)

InitFlags == InitSession({"fighter"})

NextFlags ==
    \/ \E i \in {"brass_key", "thorn"} : TakeItem(i)
    \/ \E i \in {"brass_key", "thorn"} : UseItem(i)
    \/ \E r \in {"root", "hall", "vault", "cellar", "attic"} : ChangeDirectory(r)

SpecFlags == InitFlags /\ [][NextFlags]_vars

(***************************************************************************)
(* SpecEffects: status effects added to a player and aged by               *)
(* update_status_effects, with calculate_damage asked in between.          *)
(***************************************************************************)
InitEffects ==
    /\ \E c \in {"fighter", "mage"} : player = NewPlayer(c, StartRoom, "p1")
    /\ world = set_room_visited(InitWorld, StartRoom)
    /\ active_cooldowns = EmptyDict
    /\ call = NoCall
    /\ result = NoCall
    /\ rt = NoRt
    /\ hit_updates = EmptyDict
    /\ effect_updates = EmptyDict
    /\ running = TRUE

AddEffect(effect_id) ==
    /\ player' = add_status_effect(player, effect_id, EffectData[effect_id],
                                   Get(EffectData[effect_id], "duration", 3))
    /\ effect_updates' = DictSet(effect_updates, effect_id, 0)
    /\ call' = [op |-> "add_status_effect", id |-> effect_id,
                effects_before |-> player.status_effects]
    /\ result' = [value |-> TRUE]
    /\ UNCHANGED <<world, rt, active_cooldowns, hit_updates, running>>

UpdateStatusEffects ==
    /\ player' = update_status_effects(player)
    /\ effect_updates' =
          [e \in DOMAIN effect_updates |->
              Min(effect_updates[e] + 1, Get(EffectData[e], "duration", 3))]
    /\ call' = [op |-> "update_status_effects", id |-> None,
                effects_before |-> player.status_effects]
    /\ result' = [value |-> update_status_effects_messages(player)]
    /\ UNCHANGED <<world, rt, active_cooldowns, hit_updates, running>>

CalculateDamage ==
    /\ call' = [op |-> "calculate_damage", id |-> None,
                effects_before |-> player.status_effects]
    /\ result' = [value |-> calculate_damage(player)]
    /\ UNCHANGED <<player, world, rt, combat_vars, running>>

NextEffects ==
    \/ \E e \in DOMAIN EffectData : AddEffect(e)
    \/ UpdateStatusEffects
    \/ CalculateDamage

SpecEffects == InitEffects /\ [][NextEffects]_vars

(***************************************************************************)
(* SpecMove: the world's room API driven directly: can_move_to asked for   *)
(* every pair of rooms, one of them unknown to the catalog, while rooms    *)
(* get visited, unlocked and discovered.                                   *)
(***************************************************************************)
MoveRooms == RoomIds \cup {UnknownRoom}

InitMove ==
    /\ player = NewPlayer("guardian", StartRoom, "p1")
    /\ world = InitWorld
    /\ active_cooldowns = EmptyDict
    /\ call = NoCall
    /\ result = NoCall
    /\ rt = NoRt
    /\ hit_updates = EmptyDict
    /\ effect_updates = EmptyDict
    /\ running = TRUE

CanMoveTo(from_room, to_room) ==
    /\ result' = can_move_to(world, from_room, to_room)
    /\ call' = [op |-> "can_move_to", from |-> from_room, to |-> to_room]
    /\ UNCHANGED <<player, world, rt, combat_vars, running>>

SetRoomVisited(room_id) ==
    /\ world' = set_room_visited(world, room_id)
    /\ call' = [op |-> "set_room_visited", id |-> room_id]
    /\ result' = NoCall
    /\ UNCHANGED <<player, rt, combat_vars, running>>

UnlockRoom(room_id) ==
    /\ world' = unlock_room(world, room_id)
    /\ call' = [op |-> "unlock_room", id |-> room_id]
    /\ result' = [ok |-> unlock_room_return(world, room_id)]
    /\ UNCHANGED <<player, rt, combat_vars, running>>

DiscoverRoom(room_id) ==
    /\ world' = discover_room(world, room_id)
    /\ call' = [op |-> "discover_room", id |-> room_id]
    /\ result' = [ok |-> discover_room_return(world, room_id)]
    /\ UNCHANGED <<player, rt, combat_vars, running>>

NextMove ==
    \/ \E a \in MoveRooms : \E b \in MoveRooms : CanMoveTo(a, b)
    \/ \E r \in CmdRooms \cup {UnknownRoom} : SetRoomVisited(r)
    \/ \E r \in MoveRooms : UnlockRoom(r)
    \/ \E r \in MoveRooms : DiscoverRoom(r)

SpecMove == InitMove /\ [][NextMove]_vars

(***************************************************************************)
(* SpecWorld: the world's item and enemy API driven directly, with the     *)
(* state saved and restored at any point, into the same world or into one  *)
(* freshly built from the catalog.                                         *)
(***************************************************************************)

InitWorldSpec ==
    /\ player = NewPlayer("guardian", StartRoom, "p1")
    /\ world = InitWorld
    /\ active_cooldowns = EmptyDict
    /\ call = NoCall
    /\ result = NoCall
    /\ rt = NoRt
    /\ hit_updates = EmptyDict
    /\ effect_updates = EmptyDict
    /\ running = TRUE

RemoveItemFromRoom(item_id) ==
    /\ world' = remove_item_from_room(world, item_id)
    /\ call' = [op |-> "remove_item_from_room", id |-> item_id]
    /\ result' = NoCall
    /\ UNCHANGED <<player, rt, combat_vars, running>>

AddItemToRoom(item_id, room_id) ==
    /\ world' = add_item_to_room(world, item_id, room_id)
    /\ call' = [op |-> "add_item_to_room", id |-> item_id, room |-> room_id]
    /\ result' = NoCall
    /\ UNCHANGED <<player, rt, combat_vars, running>>

RemoveEnemyFromRoom(enemy_id) ==
    /\ world' = remove_enemy_from_room(world, enemy_id).w
    /\ call' = [op |-> "remove_enemy_from_room", id |-> enemy_id]
    /\ result' = [ok |-> remove_enemy_from_room(world, enemy_id).ok]
    /\ UNCHANGED <<player, rt, combat_vars, running>>

\* get_state, then set_state with what it returned: on the same world, or
\* on the world a new process builds from the catalog before it loads
RestoreState(fresh) ==
    /\ world' = set_state(IF fresh THEN InitWorld ELSE world, get_state(world))
    /\ call' = [op |-> "set_state", fresh |-> fresh, before |-> world]
    /\ result' = NoCall
    /\ UNCHANGED <<player, rt, combat_vars, running>>

NextWorld ==
    \/ \E i \in {"axe", "potion"} : RemoveItemFromRoom(i)
    \/ \E i \in {"axe", "potion"} : \E r \in CmdRooms : AddItemToRoom(i, r)
    \/ \E e \in DOMAIN WorldEnemies : RemoveEnemyFromRoom(e)
    \/ \E r \in RoomIds : UnlockRoom(r)
    \/ \E fresh \in BOOLEAN : RestoreState(fresh)

SpecWorld == InitWorldSpec /\ [][NextWorld]_vars

(***************************************************************************)
(* SpecRefuse: a session of take / drop / use / cd commands over items     *)
(* that cannot be taken, dropped or used by everyone, and rooms that are   *)
(* no exit, hidden, locked or unknown.                                     *)
(***************************************************************************)

InitRefuse == InitSession({"fighter", "mage"})

NextRefuse ==
    \/ \E i \in {"axe", "statue", "badge"} : TakeItem(i)
    \/ \E i \in {"axe", "statue", "badge"} : DropItem(i)
    \/ \E i \in {"axe", "statue", "badge"} : UseItem(i)
    \/ \E d \in {"root", "hall", "attic", "vault", UnknownRoom} : ChangeDirectory(d)

SpecRefuse == InitRefuse /\ [][NextRefuse]_vars

(***************************************************************************)
(* SpecDoor: a session of take / drop / cd commands over the keys of the   *)
(* catalog and all its rooms, one of them unknown.                         *)
(***************************************************************************)
KeyItems == {i \in ItemIds : Get(ItemData[i], "type", None) = "key"}

NextDoor ==
    \/ \E i \in KeyItems : TakeItem(i)
    \/ \E i \in KeyItems : DropItem(i)
    \/ \E r \in MoveRooms : ChangeDirectory(r)

InitDoor == InitSession({"mage"})

SpecDoor == InitDoor /\ [][NextDoor]_vars

(***************************************************************************)
(* SpecFight: a session in which the player walks into rooms that hold     *)
(* enemies and attacks them: cd, attack, and take for the key that opens   *)
(* the sentry's room.                                                      *)
(***************************************************************************)

InitFight == InitSession({"fighter", "mage"})

NextFight ==
    \/ \E r \in {"root", "hall", "vault", "lab", "core"} : ChangeDirectory(r)
    \/ \E e \in DOMAIN WorldEnemies : \E input \in CombatInputs(player) :
          AttackEnemy(e, input)
    \/ TakeItem("brass_key")

SpecFight == InitFight /\ [][NextFight]_vars

\* the game loop reads and carries out a command as long as one is given
SpecFightLive == SpecFight /\ WF_vars(NextFight)

(***************************************************************************)
(* SpecRound: a session in which the player hurts itself with the thorn,   *)
(* gains a status effect from the tonic and meets the drone.               *)
(***************************************************************************)

InitRound == InitSession({"fighter", "celtic"})

NextRound ==
    \/ \E r \in {"root", "hall", "lab"} : ChangeDirectory(r)
    \/ \E input \in CombatInputs(player) : AttackEnemy("drone", input)
    \/ \E i \in {"thorn", "tonic"} : TakeItem(i)
    \/ \E i \in {"thorn", "tonic"} : UseItem(i)

SpecRound == InitRound /\ [][NextRound]_vars

(***************************************************************************)
(* SpecPlace: place_items called again and again during a session in which *)
(* the player walks, takes the placed items and opens the vault.           *)
(***************************************************************************)
PlaceItems ==
    /\ \E w \in place_items(world, player.player_class) : world' = w
    /\ call' = [op |-> "place_items",
                counts_before |-> world.item_spawn_counts,
                locations_before |-> world.item_locations]
    /\ result' = NoCall
    /\ rt' = NoRt
    /\ UNCHANGED <<player, combat_vars, running>>

PlacedItems == {"gem", "coin", "wand", "relic"}

InitPlace == InitSession({"fighter", "mage"})

NextPlace ==
    \/ PlaceItems
    \/ \E i \in PlacedItems \cup {"brass_key"} : TakeItem(i)
    \/ \E r \in {"root", "hall", "vault", "lab"} : ChangeDirectory(r)

SpecPlace == InitPlace /\ [][NextPlace]_vars

\* the exit list of a room; a room the catalog does not know has none
ExitList(room_id) ==
    IF room_id \in DOMAIN RoomData /\ "exits" \in DOMAIN RoomData[room_id]
    THEN RoomData[room_id].exits
    ELSE {}

(***************************************************************************)
(* Claims checked under Spec.                                              *)
(***************************************************************************)
\* the damage bonus of the equipped weapon, 0 when no weapon is equipped
EquippedBonus(p) ==
    IF p.equipped_weapon = None THEN 0
    ELSE Get(ItemData[p.equipped_weapon], "damage", 0)

\* C1: a successful take of an item the current room reports, followed by
\* a drop of it in that same room, leaves item_locations and the inventory
\* as they were before the take.
C1_TakeDropRoundTrip ==
    rt.stage = "dropped" =>
        /\ world.item_locations = rt.item_locations
        /\ player.inventory = rt.inventory

\* C2: while an item is in the player's inventory after a successful take,
\* get_items_in_room reports it for no room.
C2_TakenItemInNoRoom ==
    (call.op = "take" /\ result.ok) =>
        \A r \in RoomIds : call.id \notin get_items_in_room(world, r)

\* C3: in every reachable state total_damage = base damage of the class
\* + permanent_damage_boost + the equipped weapon's damage bonus (0 when
\* no weapon is equipped).
C3_TotalDamageFormula ==
    player.total_damage =
        BaseDamageForClass(player.player_class) + player.permanent_damage_boost
        + EquippedBonus(player)

\* C14: in every reachable state equipped_weapon is none or a key of the
\* inventory; dropping or otherwise removing the equipped weapon unequips
\* it.
C14_EquippedInInventory ==
    \/ player.equipped_weapon = None
    \/ player.equipped_weapon \in player.inventory

\* the equipped weapon has just been dropped
C14_Witness ==
    /\ call.op = "drop"
    /\ result.ok
    /\ call.equipped_before = call.id
    /\ call.id \notin player.inventory
    /\ player.equipped_weapon = None

(***************************************************************************)
(* Claims checked under SpecDoor.                                          *)
(***************************************************************************)
\* the last command was a cd into an adjacent, visible room that was locked
\* with a key_required
CdIntoLocked ==
    /\ call.op = "cd"
    /\ call.id \in ExitList(call.from)
    /\ Get(call.state_before, "locked", FALSE)
    /\ ~Get(call.state_before, "hidden", FALSE)
    /\ Get(call.state_before, "key_required", None) # None

\* C11: a cd into an adjacent room locked with key_required = k is refused
\* with a message naming k, the player's room and the lock unchanged, while
\* the player does not hold k; once the player has taken k, the same cd
\* unlocks the room and moves the player into it.
C11_KeyOpensDoor ==
    CdIntoLocked =>
        IF call.state_before.key_required \in call.inventory_before
        THEN /\ result.ok
             /\ player.current_room = call.id
             /\ ~world.room_states[call.id].locked
        ELSE /\ ~result.ok
             /\ result.message.key = call.state_before.key_required
             /\ player.current_room = call.from
             /\ world.room_states[call.id].locked

(***************************************************************************)
(* Claims checked under SpecPlayer.                                        *)
(***************************************************************************)
\* C4: heal(amount) returns the amount actually healed,
\* min(amount, max_health - health_before), for every amount >= 0 and
\* every health_before <= max_health.
C4_HealReturnsActual ==
    (call.op = "heal" /\ call.amount >= 0 /\ call.health_before <= call.max_health) =>
        result.value = Min(call.amount, call.max_health - call.health_before)

\* C5: after heal(amount) on a player with health <= max_health, health is
\* min(max_health, health_before + amount) and so never exceeds max_health.
C5_HealCapped ==
    (call.op = "heal" /\ call.health_before <= call.max_health) =>
        /\ player.health = Min(call.max_health, call.health_before + call.amount)
        /\ player.health <= player.max_health

\* a heal that asked for more than the missing health has been applied
C5_Witness ==
    /\ call.op = "heal"
    /\ call.health_before < call.max_health
    /\ call.health_before + call.amount > call.max_health
    /\ player.health = call.max_health

\* C6: after take_damage(amount), health is max(0, health_before - amount)
\* and is never below 0.
C6_DamageFloored ==
    call.op = "take_damage" =>
        /\ player.health = Max(0, call.health_before - call.amount)
        /\ player.health >= 0

\* a hit for more than the remaining health has been applied
C6_Witness ==
    /\ call.op = "take_damage"
    /\ call.health_before > 0
    /\ call.amount > call.health_before
    /\ player.health = 0

\* C15: 0 <= health <= max_health in every reachable state, after any
\* sequence of enemy attacks (reduced or not), heals, damage and permanent
\* max-health upgrades.
C15_HealthInRange ==
    /\ 0 <= player.health
    /\ player.health <= player.max_health

\* a permanent upgrade has just been applied to an injured player
C15_Witness ==
    /\ call.op = "increase_max_health"
    /\ call.health_before > 0
    /\ call.health_before < call.max_health
    /\ player.max_health = call.max_health + call.amount
    /\ player.health = call.health_before + call.amount

(***************************************************************************)
(* Claims checked under SpecCombat.                                        *)
(***************************************************************************)
\* the last call was a perform_attack that drew the accuracy roll
RollDrawn ==
    /\ call.op = "perform_attack"
    /\ call.id \in DOMAIN AttackData
    /\ \A v \in call.cd_before : v <= 0

\* the accuracy an attack is rolled against: its own, 90 if it gives none
ClaimedAccuracy(attack_id) ==
    IF "accuracy" \in DOMAIN AttackData[attack_id]
    THEN AttackData[attack_id].accuracy ELSE 90

\* the bonus a hit adds: bonus_damage, else the legacy damage field, else 0
ClaimedBonus(attack_id) ==
    IF "bonus_damage" \in DOMAIN AttackData[attack_id]
    THEN AttackData[attack_id].bonus_damage
    ELSE IF "damage" \in DOMAIN AttackData[attack_id]
         THEN AttackData[attack_id].damage ELSE 0

Available == get_available_attacks(player, player.spells, active_cooldowns)

\* C7: after a hit with an attack of cooldown c > 0, get_available_attacks
\* reports it on cooldown with cooldown_remaining = c; it is still on
\* cooldown after each of the first c-1 update_cooldowns calls and usable
\* after the c-th.
C7_CooldownLasts ==
    \A a \in DOMAIN hit_updates :
        LET c == AttackData[a].cooldown
            k == hit_updates[a]
        IN /\ a \in DOMAIN Available
           /\ (k = 0 => Available[a].on_cooldown /\ Available[a].cooldown_remaining = c)
           /\ (k < c => Available[a].on_cooldown)
           /\ (k = c => ~Available[a].on_cooldown)

\* an attack of cooldown >= 2 was hit with, stayed on cooldown for c-1
\* updates and is usable after the c-th
C7_Witness ==
    \E a \in DOMAIN hit_updates :
        /\ AttackData[a].cooldown >= 2
        /\ hit_updates[a] = AttackData[a].cooldown
        /\ call.op = "update_cooldowns"
        /\ ~Available[a].on_cooldown

\* C8: when the accuracy roll fails, perform_attack returns success=false
\* with damage 0 and healing_amount 0, and the player's cooldown entry for
\* the attack is as it was before the call.
C8_MissChangesNothing ==
    (RollDrawn /\ call.roll > ClaimedAccuracy(call.id)) =>
        /\ result.success = FALSE
        /\ result.damage = 0
        /\ result.healing_amount = 0
        /\ CooldownEntry(active_cooldowns, player.player_id, call.id) = call.cd_before

\* an attack that has a cooldown and heals missed
C8_Witness ==
    /\ RollDrawn
    /\ call.roll > ClaimedAccuracy(call.id)
    /\ Get(AttackData[call.id], "cooldown", 0) > 0
    /\ Get(AttackData[call.id], "healing", 0) > 0
    /\ result.success = FALSE

\* C9: on a hit perform_attack returns success=true and damage
\* = player.calculate_damage() + the attack's bonus_damage, which falls
\* back to the legacy damage field and then to 0.
C9_HitDamage ==
    (RollDrawn /\ call.roll <= ClaimedAccuracy(call.id)) =>
        /\ result.success = TRUE
        /\ result.damage = calculate_damage(player) + ClaimedBonus(call.id)

\* a hit with an attack that only has the legacy damage field, by a player
\* with an active damage bonus
C9_Witness ==
    /\ RollDrawn
    /\ call.roll <= ClaimedAccuracy(call.id)
    /\ "bonus_damage" \notin DOMAIN AttackData[call.id]
    /\ "damage" \in DOMAIN AttackData[call.id]
    /\ calculate_damage(player) > player.total_damage
    /\ result.damage = calculate_damage(player) + AttackData[call.id].damage

\* the player's cooldown entries: attack_id -> remaining turns
PlayerEntries == Get(active_cooldowns, player.player_id, EmptyDict)

\* C21: perform_attack with an attack id the catalog does not know returns
\* success=true with damage = player.calculate_damage(), no healing and no
\* enemy damage reduction, and changes no cooldown entry.
C21_UnknownAttackIsBasic ==
    (call.op = "perform_attack" /\ call.id \notin DOMAIN AttackData) =>
        /\ result.success = TRUE
        /\ result.damage = calculate_damage(player)
        /\ result.healing_amount = 0
        /\ result.enemy_damage_reduction = 0
        /\ PlayerEntries = call.entries_before

\* an unknown attack by a player with a damage bonus and a running cooldown
C21_Witness ==
    /\ call.op = "perform_attack"
    /\ call.id \notin DOMAIN AttackData
    /\ \E a \in DOMAIN call.entries_before : call.entries_before[a] > 0
    /\ calculate_damage(player) > player.total_damage
    /\ result.success = TRUE
    /\ result.damage = calculate_damage(player)

\* the last call was a perform_attack with an attack on cooldown
OnCooldownCall ==
    /\ call.op = "perform_attack"
    /\ call.id \in DOMAIN AttackData
    /\ \E v \in call.cd_before : v > 0

\* C22: perform_attack with an attack that is on cooldown returns
\* success=false, a message naming the attack and the remaining turns, and
\* the basic damage player.calculate_damage() without bonus, healing or
\* damage reduction; every cooldown entry is as it was.
C22_OnCooldownIsBasic ==
    OnCooldownCall =>
        /\ result.success = FALSE
        /\ result.message.kind = "on_cooldown"
        /\ result.message.name = AttackData[call.id].name
        /\ result.message.n \in call.cd_before
        /\ result.damage = calculate_damage(player)
        /\ result.bonus_damage = 0
        /\ result.healing_amount = 0
        /\ result.enemy_damage_reduction = 0
        /\ PlayerEntries = call.entries_before

\* an attack with a bonus, healing and two turns of cooldown left was tried
C22_Witness ==
    /\ OnCooldownCall
    /\ 2 \in call.cd_before
    /\ ClaimedBonus(call.id) > 0
    /\ Get(AttackData[call.id], "healing", 0) > 0
    /\ result.success = FALSE
    /\ result.damage = calculate_damage(player)

\* C30: update_cooldowns lowers every entry of the player that is > 0 by
\* exactly 1 and leaves the entries that are 0 at 0; no cooldown counter is
\* negative in any reachable state.
C30_CooldownsNeverNegative ==
    /\ call.op = "update_cooldowns" =>
          /\ DOMAIN PlayerEntries = DOMAIN call.entries_before
          /\ \A a \in DOMAIN call.entries_before :
                PlayerEntries[a] = IF call.entries_before[a] > 0
                                   THEN call.entries_before[a] - 1
                                   ELSE 0
    /\ \A pid \in DOMAIN active_cooldowns :
          \A a \in DOMAIN active_cooldowns[pid] : active_cooldowns[pid][a] >= 0

\* an update over an entry at 0 and an entry at 2
C30_Witness ==
    /\ call.op = "update_cooldowns"
    /\ \E a \in DOMAIN call.entries_before :
          call.entries_before[a] = 0 /\ PlayerEntries[a] = 0
    /\ \E a \in DOMAIN call.entries_before :
          call.entries_before[a] = 2 /\ PlayerEntries[a] = 1

(***************************************************************************)
(* Claims checked under SpecEffects.                                       *)
(***************************************************************************)
\* the duration an effect of the catalog is added with
AddedDuration(effect_id) ==
    IF "duration" \in DOMAIN EffectData[effect_id]
    THEN EffectData[effect_id].duration ELSE 3

\* C28: update_status_effects lowers every active effect's duration by
\* exactly 1, removes exactly the effects that reach 0 and returns one
\* message for each of them; every stored effect has duration > 0, and an
\* effect added with duration d is active for exactly d calls.
C28_EffectsExpire ==
    /\ call.op = "update_status_effects" =>
          LET before == call.effects_before
              expired == {e \in DOMAIN before : before[e].duration = 1}
          IN /\ DOMAIN player.status_effects = DOMAIN before \ expired
             /\ \A e \in DOMAIN player.status_effects :
                   player.status_effects[e].duration = before[e].duration - 1
             /\ DOMAIN result.value = expired
    /\ \A e \in DOMAIN player.status_effects : player.status_effects[e].duration > 0
    /\ \A e \in DOMAIN effect_updates :
          /\ (effect_updates[e] < AddedDuration(e)) <=> (e \in DOMAIN player.status_effects)
          /\ e \in DOMAIN player.status_effects =>
                player.status_effects[e].duration = AddedDuration(e) - effect_updates[e]

\* one call aged an effect and removed another, with one message
C28_Witness ==
    /\ call.op = "update_status_effects"
    /\ \E e \in DOMAIN call.effects_before :
          /\ call.effects_before[e].duration = 1
          /\ e \notin DOMAIN player.status_effects
          /\ e \in DOMAIN result.value
    /\ \E e \in DOMAIN player.status_effects :
          /\ effect_updates[e] = 2
          /\ player.status_effects[e].duration = 1
    /\ Cardinality(DOMAIN result.value) = 1

\* the damage_bonus of the effects among ids that were added and have not
\* been through as many updates as their duration
RECURSIVE ActiveBonus(_)
ActiveBonus(ids) ==
    IF ids = {} THEN 0
    ELSE LET e == CHOOSE x \in ids : TRUE
             bonus == IF "damage_bonus" \in DOMAIN EffectData[e]
                      THEN EffectData[e].damage_bonus ELSE 0
         IN (IF effect_updates[e] < AddedDuration(e) THEN bonus ELSE 0)
               + ActiveBonus(ids \ {e})

\* C29: calculate_damage returns total_damage plus the damage_bonus of
\* every active status effect: an effect counts from the moment it is
\* added until it expires, and no longer after that.
C29_DamageCountsActiveEffects ==
    call.op = "calculate_damage" =>
        result.value = player.total_damage + ActiveBonus(DOMAIN effect_updates)

\* asked with one bonus effect active, one without bonus, one expired
C29_Witness ==
    /\ call.op = "calculate_damage"
    /\ {"rage", "ward"} \subseteq DOMAIN player.status_effects
    /\ "spark" \in DOMAIN effect_updates
    /\ "spark" \notin DOMAIN player.status_effects
    /\ result.value = player.total_damage + 2

(***************************************************************************)
(* Claims checked under SpecMove.                                          *)
(***************************************************************************)
\* C10: can_move_to(a, b) returns not-allowed whenever b is not in a's
\* exit list, whatever the locked, hidden and key_required flags of b are
\* and whether or not a or b is a known room.
C10_NoExitNoMove ==
    (call.op = "can_move_to" /\ call.to \notin ExitList(call.from)) =>
        ~result.allowed

\* asked for a room that is no exit of the from-room, that started locked
\* behind a key and is by now unlocked and not hidden
C10_Witness ==
    /\ call.op = "can_move_to"
    /\ call.from \in RoomIds
    /\ call.to \in RoomIds
    /\ call.to \notin ExitList(call.from)
    /\ Get(RoomData[call.to], "locked", FALSE)
    /\ ~world.room_states[call.to].locked
    /\ ~world.room_states[call.to].hidden
    /\ ~result.allowed

\* the flags of a room as the world holds them; a room without a state is
\* neither hidden nor locked
HiddenIn(w, room_id) ==
    /\ room_id \in DOMAIN w.room_states
    /\ "hidden" \in DOMAIN w.room_states[room_id]
    /\ w.room_states[room_id].hidden

LockedIn(w, room_id) ==
    /\ room_id \in DOMAIN w.room_states
    /\ "locked" \in DOMAIN w.room_states[room_id]
    /\ w.room_states[room_id].locked

IsHidden(room_id) == HiddenIn(world, room_id)

IsLocked(room_id) == LockedIn(world, room_id)

\* C31: can_move_to(a, b) returns allowed exactly when b is a declared exit
\* of a that is neither hidden nor locked: a hidden exit is refused even if
\* it is unlocked, and a locked exit is refused.
C31_AllowedIffOpenExit ==
    call.op = "can_move_to" =>
        (result.allowed <=>
            /\ call.to \in ExitList(call.from)
            /\ ~IsHidden(call.to)
            /\ ~IsLocked(call.to))

\* asked for a declared exit that is hidden and not locked, and refused
C31_Witness ==
    /\ call.op = "can_move_to"
    /\ call.to \in ExitList(call.from)
    /\ IsHidden(call.to)
    /\ ~IsLocked(call.to)
    /\ ~result.allowed

\* C32: unlock_room and discover_room are idempotent.  A call on a locked
\* (hidden) room returns true and clears the flag and nothing else; a call
\* on a room that is not locked (hidden), as every room is after a first
\* call, or on an unknown room returns false and changes nothing.
C32_UnlockDiscoverIdempotent ==
    [][/\ call'.op = "unlock_room" =>
            /\ result'.ok = IsLocked(call'.id)
            /\ ~LockedIn(world', call'.id)
            /\ world' = IF IsLocked(call'.id)
                        THEN [world EXCEPT !.room_states[call'.id].locked = FALSE]
                        ELSE world
       /\ call'.op = "discover_room" =>
            /\ result'.ok = IsHidden(call'.id)
            /\ ~HiddenIn(world', call'.id)
            /\ world' = IF IsHidden(call'.id)
                        THEN [world EXCEPT !.room_states[call'.id].hidden = FALSE]
                        ELSE world]_vars

\* a further unlock_room on a room that started locked and is unlocked by
\* now has returned false
C32_Witness ==
    /\ call.op = "unlock_room"
    /\ call.id \in RoomIds
    /\ Get(RoomData[call.id], "locked", FALSE)
    /\ ~IsLocked(call.id)
    /\ ~result.ok

\* C36: the player's position changes only by a successful cd, and every
\* change goes from a room a to a room b that is a declared exit of a and
\* is neither hidden nor locked once the move is made, the automatic
\* unlock with a held key included.
C36_MovesOnlyThroughOpenExits ==
    [][player'.current_room # player.current_room =>
          /\ call'.op = "cd"
          /\ result'.ok
          /\ call'.id = player'.current_room
          /\ call'.from = player.current_room
          /\ player'.current_room \in ExitList(player.current_room)
          /\ ~HiddenIn(world', player'.current_room)
          /\ ~LockedIn(world', player'.current_room)]_vars

\* the player has moved into a room that was locked when the cd was given
C36_Witness ==
    /\ call.op = "cd"
    /\ result.ok
    /\ player.current_room = call.id
    /\ call.state_before.locked

(***************************************************************************)
(* Claims checked under SpecFight.                                         *)
(***************************************************************************)
\* the last command started an encounter
EncounterStarted ==
    /\ call.op \in {"cd", "attack"}
    /\ call.enemy # None

\* the action the player was about to take in it hits for at least the
\* enemy's health
LethalInput ==
    /\ call.input.choice \in DOMAIN AttackData
    /\ call.input.roll <= ClaimedAccuracy(call.input.choice)
    /\ call.base + ClaimedBonus(call.input.choice)
          >= Get(WorldEnemies[call.enemy], "health", 50)

\* C12: when the player's action brings the enemy's health to <= 0, the
\* encounter ends as ENEMY_DEFEATED and the enemy is removed from the
\* world: get_enemies_in_room of the room it was in no longer lists it.
C12_DefeatRemovesEnemy ==
    (EncounterStarted /\ LethalInput) =>
        /\ result.outcome = "ENEMY_DEFEATED"
        /\ call.enemy \notin get_enemies_in_room(world, player.current_room)

\* C16: the player's cooldown map is empty when an encounter starts, and
\* the encounter calls reset_cooldowns when it ends, whatever the outcome,
\* leaving the map empty.
C16_CooldownsReset ==
    EncounterStarted =>
        /\ Get(call.cooldowns_before, player.player_id, EmptyDict) = EmptyDict
        /\ result.reset_calls >= 1
        /\ Get(active_cooldowns, player.player_id, EmptyDict) = EmptyDict

C18_FleeUnlessBoss ==
    (EncounterStarted /\ call.input.choice = "flee") =>
        result.outcome = IF Get(WorldEnemies[call.enemy], "is_boss", FALSE)
                         THEN "ENGAGED" ELSE "FLED"

\* the encounter of the last command came to a terminal state
EncounterOver ==
    /\ EncounterStarted
    /\ result.outcome \in {"ENEMY_DEFEATED", "PLAYER_DEFEATED"}

\* C40: every encounter eventually reaches a terminal state, the enemy
\* defeated or the player defeated, when the enemy's damage is > 0 or the
\* player's hits deal damage.
C40_EncounterTerminates ==
    (/\ EncounterStarted
     /\ \/ Get(WorldEnemies[call.enemy], "damage", 10) > 0
        \/ call.base > 0) ~> EncounterOver

(***************************************************************************)
(* Claims checked under SpecPlace.                                         *)
(***************************************************************************)
MaxSpawn(item_id) ==
    IF "max_spawn" \in DOMAIN ItemData[item_id] THEN ItemData[item_id].max_spawn ELSE 1

SpawnCount(counts, item_id) == IF item_id \in DOMAIN counts THEN counts[item_id] ELSE 0

\* the items the last place_items call placed
JustPlaced ==
    {i \in ItemIds :
        SpawnCount(world.item_spawn_counts, i) # SpawnCount(call.counts_before, i)}

\* C13: place_items never places an item whose spawn count has reached its
\* max_spawn; an item with max_spawn = 1 has been placed at most once and
\* is reported by at most one room.
C13_MaxSpawnRespected ==
    /\ call.op = "place_items" =>
          \A i \in JustPlaced : SpawnCount(call.counts_before, i) < MaxSpawn(i)
    /\ \A i \in ItemIds :
          MaxSpawn(i) = 1 =>
             /\ SpawnCount(world.item_spawn_counts, i) <= 1
             /\ Cardinality({r \in RoomIds : i \in get_items_in_room(world, r)}) <= 1

\* place_items ran while the player held an item of max_spawn 1 that had
\* been placed once, and placed another item
C13_Witness ==
    /\ call.op = "place_items"
    /\ JustPlaced # {}
    /\ \E i \in player.inventory :
          /\ MaxSpawn(i) = 1
          /\ i \in PlacedItems
          /\ SpawnCount(world.item_spawn_counts, i) = 1
          /\ i \notin DOMAIN world.item_locations

\* whether an item's class fields permit a class
PermittedFor(item_id, class) ==
    /\ "class_restriction" \in DOMAIN ItemData[item_id] =>
          class \in ItemData[item_id].class_restriction
    /\ "allowed_classes" \in DOMAIN ItemData[item_id] =>
          class \in ItemData[item_id].allowed_classes

\* C33: every item one place_items call placed was in no room before the
\* call, is permitted for the player's class and lies in a room that is
\* not locked and, when the item declares allowed_rooms, is one of them;
\* the call placed it once.
C33_PlacedWhereAllowed ==
    call.op = "place_items" =>
        \A i \in JustPlaced :
            /\ i \notin DOMAIN call.locations_before
            /\ PermittedFor(i, player.player_class)
            /\ i \in DOMAIN world.item_locations
            /\ world.item_locations[i] \in RoomIds
            /\ ~IsLocked(world.item_locations[i])
            /\ "allowed_rooms" \in DOMAIN ItemData[i] =>
                  world.item_locations[i] \in ItemData[i].allowed_rooms
            /\ SpawnCount(world.item_spawn_counts, i) = SpawnCount(call.counts_before, i) + 1

\* place_items placed an item one of whose allowed rooms is locked
C33_Witness ==
    /\ call.op = "place_items"
    /\ \E i \in JustPlaced :
          /\ "allowed_rooms" \in DOMAIN ItemData[i]
          /\ \E r \in ItemData[i].allowed_rooms : IsLocked(r)


(***************************************************************************)
(* Claims checked under SpecSave.                                          *)
(***************************************************************************)
\* the Player State fields of the data model
PlayerStateFields ==
    {"name", "player_class", "current_room", "health", "max_health", "total_damage",
     "inventory", "equipped_weapon", "status_effects", "permanent_health_boost",
     "permanent_damage_boost", "spells"}

\* C19: saving the Player State writes a save, and a player restored from
\* the saved state equals the saved player on every Player State field.
C19_PlayerRoundTrip ==
    /\ call.op = "save" => result.written
    /\ call.op = "to_dict" =>
          \A f \in PlayerStateFields : result.restored[f] = call.player[f]

(***************************************************************************)
(* Claims checked under SpecWorld.                                         *)
(***************************************************************************)
\* C20: after get_state and set_state, into the same world or into a
\* fresh one, every room's get_items_in_room, get_enemies_in_room and
\* get_npcs_in_room return what they returned before the save.
C20_WorldRoundTrip ==
    call.op = "set_state" =>
        \A r \in RoomIds :
            /\ get_items_in_room(world, r) = get_items_in_room(call.before, r)
            /\ get_enemies_in_room(world, r) = get_enemies_in_room(call.before, r)
            /\ get_npcs_in_room(world, r) = get_npcs_in_room(call.before, r)

\* C37: removing a defeated enemy affects only that enemy: every other
\* enemy get_enemies_in_room reported for a room before
\* remove_enemy_from_room(e) is still reported for that room after it.
C37_RemovalKeepsOtherEnemies ==
    [][call'.op = "remove_enemy_from_room" =>
          \A r \in RoomIds :
              \A e \in get_enemies_in_room(world, r) \ {call'.id} :
                  e \in get_enemies_in_room(world', r)]_vars

(***************************************************************************)
(* Claims checked under SpecRefuse.                                        *)
(***************************************************************************)
\* the room the world tracks an item in, None when it tracks none
LocatedIn(item_id) ==
    IF item_id \in DOMAIN world.item_locations
    THEN world.item_locations[item_id] ELSE None

\* the command about to run is one the specification refuses, judged in the
\* state before it: c is the command, as the next state's call records it
MustBeRefused(c) ==
    \/ /\ c.op = "cd"
       /\ \/ c.id \notin ExitList(player.current_room)
          \/ (c.id \in DOMAIN world.room_states /\ world.room_states[c.id].hidden)
          \/ /\ c.id \in DOMAIN world.room_states
             /\ world.room_states[c.id].locked
             /\ world.room_states[c.id].key_required \notin player.inventory
    \/ /\ c.op = "take"
       /\ \/ LocatedIn(c.id) # player.current_room
          \/ ("takeable" \in DOMAIN ItemData[c.id] /\ ~ItemData[c.id].takeable)
    \/ /\ c.op = "drop"
       /\ \/ c.id \notin player.inventory
          \/ ("droppable" \in DOMAIN ItemData[c.id] /\ ~ItemData[c.id].droppable)
    \/ /\ c.op = "use"
       /\ c.id \in player.inventory
       /\ \/ /\ ItemData[c.id].type # "weapon"
             /\ ~("usable" \in DOMAIN ItemData[c.id] /\ ItemData[c.id].usable)
          \/ /\ "class_restriction" \in DOMAIN ItemData[c.id]
             /\ player.player_class \notin ItemData[c.id].class_restriction

\* C24: every command the specification refuses (cd to a room that is no
\* exit, is hidden or is locked without the key; take of a non-takeable or
\* absent item; drop of a non-droppable or absent item; use of an unusable
\* or class-restricted item) is reported as a refusal and leaves the world
\* and the player as they were.
C24_RefusalChangesNothing ==
    [][MustBeRefused(call') =>
          /\ result'.ok = FALSE
          /\ player' = player
          /\ world' = world]_vars

RoundHit ==
    /\ call.input.choice \in DOMAIN AttackData
    /\ call.input.roll <= Accuracy(AttackData[call.input.choice])

RoundDamage ==
    IF RoundHit THEN combat_calculate_damage(call.base, call.input.choice) ELSE 0

RoundReduction ==
    IF RoundHit THEN Get(AttackData[call.input.choice], "enemy_damage_reduction", 0) ELSE 0

RoundHealing ==
    IF RoundHit THEN Get(AttackData[call.input.choice], "healing", 0) ELSE 0

EnemySurvives == RoundDamage < Get(WorldEnemies[call.enemy], "health", 50)

EnemyTurnDamage ==
    enemy_turn_damage(Get(WorldEnemies[call.enemy], "damage", 10), RoundReduction)

\* C25: when an attack that declares healing h > 0 hits during an
\* encounter, the player's health right after the player's action is
\* min(max_health, health_before + h); with the enemy defeated by that hit
\* no enemy turn follows, and it is the health the encounter ends with.
C25_HealingApplied ==
    (EncounterStarted /\ RoundHit /\ RoundHealing > 0 /\ ~EnemySurvives) =>
        player.health = Min(player.max_health, call.health_before + RoundHealing)

\* C26: in the enemy's turn of a round the player loses the enemy's damage
\* times (1 - enemy_damage_reduction) when the player's action of that
\* round granted a reduction, and the enemy's full damage otherwise.
C26_EnemyTurnDamage ==
    (/\ EncounterStarted
     /\ call.input.choice \in DOMAIN AttackData
     /\ RoundHealing = 0
     /\ EnemySurvives) =>
        player.health = Max(0, call.health_before - EnemyTurnDamage)

\* C27: a completed combat round (the player has acted, the enemy's turn
\* has been resolved and the player is still alive) applies
\* update_status_effects exactly once: every effect the player entered the
\* round with has lost one turn, and is gone if it had one turn left.
C27_EffectsUpdatedOncePerRound ==
    (/\ EncounterStarted
     /\ call.input.choice \in DOMAIN AttackData
     /\ EnemySurvives
     /\ Min(player.max_health, call.health_before + RoundHealing) > EnemyTurnDamage) =>
        player.status_effects =
            update_status_effects(
                [player EXCEPT !.status_effects = call.effects_before]).status_effects

(***************************************************************************)
(* Claims checked under SpecAttacks.                                       *)
(***************************************************************************)
\* the ids the learned spells of the last call stand for
LearnedSpellIds ==
    {SpellAttackId[call.spells[i].spell_name] : i \in 1..Len(call.spells)}

\* the remaining turns the player's cooldown map holds for an attack
Remaining(attack_id) ==
    IF player.player_id \in DOMAIN active_cooldowns
       /\ attack_id \in DOMAIN active_cooldowns[player.player_id]
    THEN active_cooldowns[player.player_id][attack_id]
    ELSE 0

\* C34: get_available_attacks returns one entry per id in the union of the
\* class's base attacks and, for mage and celtic only, the learned spells,
\* without the ids that have no attack definition; an entry has
\* on_cooldown true, with the remaining turns, exactly when the player's
\* cooldown for the id is > 0.
C34_AvailableAttacks ==
    call.op = "get_available_attacks" =>
        /\ DOMAIN result =
              (get_attacks_for_class(player.player_class)
                 \cup (IF player.player_class \in {"mage", "celtic"}
                       THEN LearnedSpellIds ELSE {}))
              \cap DOMAIN AttackData
        /\ \A a \in DOMAIN result :
              /\ result[a].on_cooldown <=> Remaining(a) > 0
              /\ result[a].on_cooldown => result[a].cooldown_remaining = Remaining(a)

\* a mage who learned a spell with a definition and one without is offered
\* the first along with the base attacks, one of them on cooldown
C34_Witness ==
    /\ call.op = "get_available_attacks"
    /\ player.player_class = "mage"
    /\ "chain_lightning" \in LearnedSpellIds
    /\ "mind_blast" \in LearnedSpellIds
    /\ "chain_lightning" \in DOMAIN result
    /\ "frost_nova" \notin DOMAIN result
    /\ result["fireball"].on_cooldown

\* C39: in a round of the combat loop only an action offered as usable
\* is accepted: the key of an attack that get_available_attacks reports
\* on cooldown is not accepted, so the attack handed to perform_attack has
\* no remaining cooldown.
C39_OnlyUsableAccepted ==
    call.op = "choose" =>
        /\ (call.key \in DOMAIN call.order /\ Remaining(call.order[call.key]) > 0) =>
              ~result.accepted
        /\ result.accepted =>
              /\ result.action_id = call.order[call.key]
              /\ Remaining(result.action_id) = 0

\* the number of an attack on cooldown was pressed and not accepted
C39_Witness ==
    /\ call.op = "choose"
    /\ call.key \in DOMAIN call.order
    /\ Remaining(call.order[call.key]) > 0
    /\ ~result.accepted

(***************************************************************************)
(* Claims checked under SpecPlayers.                                       *)
(***************************************************************************)
\* an operation of the combat engine on the current player leaves the
\* entries of every other player as they were
OthersUntouched ==
    [][call'.op \in {"perform_attack", "update_cooldowns", "reset_cooldowns"} =>
          \A q \in DOMAIN active_cooldowns \ {player.player_id} :
              /\ q \in DOMAIN active_cooldowns'
              /\ active_cooldowns'[q] = active_cooldowns[q]]_vars

\* C35: cooldown state is per player: perform_attack, update_cooldowns and
\* reset_cooldowns for one player leave the entries of every other player
\* unchanged, and a newly created player (a new game or a player restored
\* from a save) has no attack on cooldown.
C35_CooldownsPerPlayer ==
    [][/\ call'.op \in {"perform_attack", "update_cooldowns", "reset_cooldowns"} =>
            \A q \in DOMAIN active_cooldowns \ {player.player_id} :
                /\ q \in DOMAIN active_cooldowns'
                /\ active_cooldowns'[q] = active_cooldowns[q]
       /\ call'.op = "new_player" =>
            \A a \in DOMAIN AttackData :
                ~(/\ player'.player_id \in DOMAIN active_cooldowns'
                  /\ a \in DOMAIN active_cooldowns'[player'.player_id]
                  /\ active_cooldowns'[player'.player_id][a] > 0)]_vars

(***************************************************************************)
(* Claims checked under SpecFlags.                                         *)
(***************************************************************************)
VisitedIn(w, room_id) ==
    /\ room_id \in DOMAIN w.room_states
    /\ w.room_states[room_id].visited

\* C38: within a session room flags only move one way: a room that is
\* unlocked is never locked again, a room that is not hidden is never
\* hidden again, and a visited room stays visited, whatever command or
\* effect is carried out.
C38_FlagsMoveOneWay ==
    [][\A r \in RoomIds :
          /\ r \in DOMAIN world'.room_states
          /\ ~LockedIn(world, r) => ~LockedIn(world', r)
          /\ ~HiddenIn(world, r) => ~HiddenIn(world', r)
          /\ VisitedIn(world, r) => VisitedIn(world', r)]_vars

\* the player stands in the cellar, which the thorn's effect unlocked, the
\* vault unlocked with the key and visited before
C38_Witness ==
    /\ call.op = "cd"
    /\ player.current_room = "cellar"
    /\ VisitedIn(world, "cellar")
    /\ VisitedIn(world, "vault")
    /\ ~IsLocked("vault")
    /\ ~IsLocked("cellar")

====
